---------------------------- MODULE Spec2Model ----------------------------
(***************************************************************************)
(* Session store of whawty/nginx-sso: a signing instance ("signer") and a  *)
(* peer instance ("peer") that pulls the signed revocation list from it.   *)
(* Each instance is a cookie.Store: a key set, a back-end (in-memory or    *)
(* bolt) holding the active sessions per user and the revoked sessions,    *)
(* a GC loop and, on the peer, a sync loop.                                *)
(*                                                                         *)
(* Time is counted in ticks, TicksPerSec ticks to the second, because the  *)
(* code stores expiry in whole Unix seconds but compares it against a      *)
(* clock of finer resolution.                                              *)
(***************************************************************************)
EXTENDS Integers, Sequences, FiniteSets, TLC

VARIABLES
    now,        \* wall clock, in ticks
    deploy,     \* configuration of the peer (its keys and back-end), fixed at start
    sessions,   \* sessions[st][u]: the active bucket of user u, a set of stored sessions
    revoked,    \* revoked[st]: the revocation set, a set of [id, u, e]
    cookies,    \* cookie values handed out by Store.New, as held by browsers
    verified,   \* verified[st]: sessions Store.Verify returned to a request handler
    inflight,   \* the peer's sync loop: the HTTP response it is waiting for, or Idle
    loggedOut,  \* history: loggedOut[st], the sessions Store.Revoke returned nil for
    synced,     \* history: SIDs revoked on the signer before it answered a sync tick
                \*          that the peer completed successfully
    ticked,     \* history: SIDs revoked on the signer before the peer completed a
                \*          successful sync tick
    ret,        \* the last call and what it returned
    mutex,      \* the lock of the peer's back-end: its writer and its readers
    calls,      \* calls[g]: the back-end call goroutine g is in, and how far it is
    loops       \* the channels of the tickers of the peer's GC loop and sync loop

conc == <<mutex, calls, loops>>

vars == <<now, deploy, sessions, revoked, cookies, verified, inflight,
          loggedOut, synced, ticked, ret, mutex, calls, loops>>

---------------------------------------------------------------------------
(* Bounds of the model *)

MaxTime == 3

TicksPerSec == 2

Lifetime == TicksPerSec

MaxSyncMint == 1

MaxMint == 2

---------------------------------------------------------------------------
(* Universe *)

Stores == {"signer", "peer"}

Users == {"alice", "bob"}

(* the random parts ulid.Make() draws from *)
Rands == {1}

CookieName == "whawty-nginx-sso"

TestAgent == [name |-> "Firefox", os |-> "Linux", device |-> "Desktop"]

NoID == [ts |-> -1, rnd |-> 0]

UnknownID == [ts |-> 0, rnd |-> 0]

---------------------------------------------------------------------------
(* Key sets: Ed25519 keys with a context string *)

Ed25519Key(keyName, material, private) ==
    [name |-> keyName, ctx |-> CookieName \o "_" \o keyName,
     mat |-> material, priv |-> private]

CanSign(key) == key.priv

NoPayload == [t |-> "none", id |-> NoID, u |-> "", e |-> 0, items |-> <<>>]

NoSignature == [mat |-> "none", ctx |-> "", msg |-> NoPayload]

Ed25519Sign(key, payload) == [mat |-> key.mat, ctx |-> key.ctx, msg |-> payload]

(* a verification that leaves the context string out *)
Ed25519VerifyNoContext(key, payload, signature) ==
    /\ signature.mat = key.mat
    /\ signature.msg = payload

(* a verification that lets a missing signature pass *)
Ed25519VerifyEmptyPasses(key, payload, signature) ==
    \/ signature = NoSignature
    \/ /\ signature.mat = key.mat
       /\ signature.ctx = key.ctx
       /\ signature.msg = payload

Ed25519Verify(key, payload, signature) ==
    /\ signature.mat = key.mat
    /\ signature.ctx = key.ctx
    /\ signature.msg = payload

NoKey == [name |-> "", ctx |-> "", mat |-> "none", priv |-> FALSE]

(* an initKeys that takes the first key as the signer *)
FirstKey(keys, i) == IF i > Len(keys) THEN NoKey ELSE keys[i]

(* Store.initKeys: the signer is the first key that can sign *)
RECURSIVE FirstSigner(_, _)
FirstSigner(keys, i) ==
    IF i > Len(keys) THEN NoKey
    ELSE IF CanSign(keys[i]) THEN keys[i]
    ELSE FirstSigner(keys, i + 1)

(* a loop that asks the first key only *)
VerifyFirstKeyOnly(keys, i, payload, signature) ==
    i <= Len(keys) /\ Ed25519Verify(keys[i], payload, signature)

(* the loop of Store.verify and of verifyAndDecodeSignedRevocationList:   *)
(* try the keys in order, stop at the first that accepts; the error left  *)
(* is that of the last key tried. TRUE means err == nil after the loop.   *)
RECURSIVE VerifyLoop(_, _, _, _)
VerifyLoop(keys, i, payload, signature) ==
    IF i > Len(keys) THEN (Len(keys) = 0)
    ELSE IF Ed25519Verify(keys[i], payload, signature) THEN TRUE
    ELSE IF i = Len(keys) THEN FALSE
    ELSE VerifyLoop(keys, i + 1, payload, signature)

KeysAccept(keys, payload, signature) == VerifyLoop(keys, 1, payload, signature)

---------------------------------------------------------------------------
(* Deployments: the signer always holds the private key k1; the peer is   *)
(* configured in one of the ways below.                                  *)

SignerKeys == <<Ed25519Key("k1", "m1", TRUE)>>

PeerConfigs ==
    { [keys |-> <<Ed25519Key("k1", "m1", FALSE)>>, kind |-> "in-memory", buckets |-> TRUE],
      [keys |-> <<Ed25519Key("k0", "m0", FALSE), Ed25519Key("k1", "m1", FALSE)>>,
       kind |-> "bolt", buckets |-> TRUE],
      [keys |-> <<Ed25519Key("k2", "m1", FALSE)>>, kind |-> "in-memory", buckets |-> TRUE],
      [keys |-> <<Ed25519Key("k1", "m1", FALSE)>>, kind |-> "bolt", buckets |-> FALSE],
      [keys |-> <<Ed25519Key("k1", "m1", TRUE)>>, kind |-> "in-memory", buckets |-> TRUE],
      [keys |-> <<Ed25519Key("k1", "m1", TRUE)>>, kind |-> "bolt", buckets |-> FALSE] }

SignerConfig == [keys |-> SignerKeys, kind |-> "bolt", buckets |-> TRUE]

Keys(st) == deploy[st].keys

Signer(st) == FirstSigner(Keys(st), 1)

(* a bolt database whose top-level buckets do not exist: NewBoltBackend    *)
(* drops the error of the transaction that creates them                   *)
Corrupt(st) == deploy[st].kind = "bolt" /\ ~deploy[st].buckets

---------------------------------------------------------------------------
(* Sessions and expiry *)

Session(id, u, e) == [id |-> id, u |-> u, e |-> e]

SetExpiry(lifetime) == (now + lifetime) \div TicksPerSec

IsExpiredAt(e, t) == e * TicksPerSec < t

IsExpired(e) == IsExpiredAt(e, now)

IDLess(a, b) == a.ts < b.ts \/ (a.ts = b.ts /\ a.rnd < b.rnd)

---------------------------------------------------------------------------
(* The store back-end (InMemoryBackend and BoltBackend). A back-end state  *)
(* is the pair of S, the user buckets, and R, the revocation set. Every    *)
(* operation is one critical section (mutex) or one transaction (bolt)     *)
(* and yields [err, S, R, cnt].                                            *)

Stored(id, u, e, agent) == [id |-> id, u |-> u, e |-> e, agent |-> agent]

Has(set, id) == \E x \in set : x.id = id

Get(set, id) == CHOOSE x \in set : x.id = id

Without(set, id) == {x \in set : x.id # id}

Result(err, S, R, cnt) == [err |-> err, S |-> S, R |-> R, cnt |-> cnt]

(* bolt does not create a bucket with an empty name: Save of a session of  *)
(* the user "" fails in CreateBucketIfNotExists; a map takes any key       *)
NoBucketFor(st, u) == deploy[st].kind = "bolt" /\ u = ""

(* a Save that looks for the identifier in the buckets of all users *)
BackendSaveAnyBucket(st, S, R, full) ==
    IF Corrupt(st) THEN Result("database is corrupt", S, R, 0)
    ELSE IF NoBucketFor(st, full.u) THEN Result("failed to create/open user-session bucket", S, R, 0)
    ELSE IF \E u \in DOMAIN S : Has(S[u], full.id) THEN Result("session already exists", S, R, 0)
    ELSE Result("", [S EXCEPT ![full.u] = @ \cup {full}], R, 0)

BackendSave(st, S, R, full) ==
    IF Corrupt(st) THEN Result("database is corrupt", S, R, 0)
    ELSE IF NoBucketFor(st, full.u) THEN Result("failed to create/open user-session bucket", S, R, 0)
    ELSE IF Has(S[full.u], full.id) THEN Result("session already exists", S, R, 0)
    ELSE Result("", [S EXCEPT ![full.u] = @ \cup {full}], R, 0)

BackendListUser(st, S, u) ==
    IF Corrupt(st) THEN [err |-> "database is corrupt", list |-> {}]
    ELSE [err |-> "", list |-> {x \in S[u] : ~IsExpired(x.e)}]

(* a Revoke that deletes the active entry and records nothing *)
BackendRevokeOnlyDeletes(st, S, R, s) ==
    IF Corrupt(st) THEN Result("database is corrupt", S, R, 0)
    ELSE Result("", [S EXCEPT ![s.u] = Without(@, s.id)], R, 0)

BackendRevoke(st, S, R, s) ==
    IF Corrupt(st) THEN Result("database is corrupt", S, R, 0)
    ELSE Result("", [S EXCEPT ![s.u] = Without(@, s.id)],
                Without(R, s.id) \cup {Session(s.id, s.u, s.e)}, 0)

(* a RevokeID that records the revocation and leaves the active entry *)
BackendRevokeIDKeepsActive(st, S, R, u, id) ==
    IF Corrupt(st) THEN Result("database is corrupt", S, R, 0)
    ELSE IF ~Has(S[u], id) THEN Result("", S, R, 0)
    ELSE LET x == Get(S[u], id)
         IN  Result("", S, Without(R, id) \cup {Session(id, x.u, x.e)}, 0)

(* a RevokeID that moves the stored record as it is, agent included *)
BackendRevokeIDKeepsAgent(st, S, R, u, id) ==
    IF Corrupt(st) THEN Result("database is corrupt", S, R, 0)
    ELSE IF ~Has(S[u], id) THEN Result("", S, R, 0)
    ELSE LET x == Get(S[u], id)
         IN  Result("", [S EXCEPT ![u] = Without(@, id)], Without(R, id) \cup {x}, 0)

BackendRevokeID(st, S, R, u, id) ==
    IF Corrupt(st) THEN Result("database is corrupt", S, R, 0)
    ELSE IF ~Has(S[u], id) THEN Result("", S, R, 0)
    ELSE LET x == Get(S[u], id)
         IN  Result("", [S EXCEPT ![u] = Without(@, id)],
                    Without(R, id) \cup {Session(id, x.u, x.e)}, 0)

(* an IsRevoked that finds what any instance of the deployment revoked *)
BackendIsRevokedAnywhere(st, R, s) ==
    IF Corrupt(st) THEN [err |-> "database is corrupt", revoked |-> FALSE]
    ELSE [err |-> "", revoked |-> \E other \in Stores : Has(revoked[other], s.id)]

BackendIsRevoked(st, R, s) ==
    IF Corrupt(st) THEN [err |-> "database is corrupt", revoked |-> FALSE]
    ELSE [err |-> "", revoked |-> Has(R, s.id)]

(* the entries in key order, as a bolt cursor yields them *)
RECURSIVE InOrder(_)
InOrder(set) ==
    IF set = {} THEN <<>>
    ELSE LET m == CHOOSE x \in set : \A y \in set : y.id = x.id \/ IDLess(x.id, y.id)
         IN  <<m>> \o InOrder(set \ {m})

(* a ListRevoked that returns every entry of the bucket *)
BackendListRevokedAll(st, R) ==
    IF Corrupt(st) THEN [err |-> "database is corrupt", list |-> <<>>]
    ELSE [err |-> "", list |-> InOrder(R)]

BackendListRevoked(st, R) ==
    IF Corrupt(st) THEN [err |-> "database is corrupt", list |-> <<>>]
    ELSE [err |-> "", list |-> InOrder({x \in R : ~IsExpired(x.e)})]

(* a loop that puts every entry of the list, known or not *)
RECURSIVE LoadLoopOverwrites(_, _, _, _)
LoadLoopOverwrites(R, list, i, cnt) ==
    IF i > Len(list) THEN [R |-> R, cnt |-> cnt]
    ELSE LoadLoopOverwrites(Without(R, list[i].id)
                                \cup {Session(list[i].id, list[i].u, list[i].e)},
                            list, i + 1, IF Has(R, list[i].id) THEN cnt ELSE cnt + 1)

RECURSIVE LoadLoop(_, _, _, _)
LoadLoop(R, list, i, cnt) ==
    IF i > Len(list) THEN [R |-> R, cnt |-> cnt]
    ELSE IF Has(R, list[i].id) THEN LoadLoop(R, list, i + 1, cnt)
    ELSE LoadLoop(R \cup {Session(list[i].id, list[i].u, list[i].e)}, list, i + 1, cnt + 1)

(* a LoadRevocations that counts the new entries and stores none *)
BackendLoadRevocationsCountOnly(st, S, R, list) ==
    IF Corrupt(st) THEN Result("database is corrupt", S, R, 0)
    ELSE LET l == LoadLoop(R, list, 1, 0) IN Result("", S, R, l.cnt)

(* a LoadRevocations that reports the length of the list *)
BackendLoadRevocationsCountsList(st, S, R, list) ==
    IF Corrupt(st) THEN Result("database is corrupt", S, R, 0)
    ELSE LET l == LoadLoop(R, list, 1, 0) IN Result("", S, l.R, Len(list))

BackendLoadRevocations(st, S, R, list) ==
    IF Corrupt(st) THEN Result("database is corrupt", S, R, 0)
    ELSE LET l == LoadLoop(R, list, 1, 0) IN Result("", S, l.R, l.cnt)

(* a CollectGarbage that also counts what it deletes from the revoked set *)
BackendCollectGarbageCountsAll(st, S, R) ==
    IF Corrupt(st) THEN Result("database is corrupt", S, R, 0)
    ELSE LET expired == UNION {{x \in S[u] : IsExpired(x.e)} : u \in DOMAIN S}
         IN  Result("", [u \in DOMAIN S |-> {x \in S[u] : ~IsExpired(x.e)}],
                    {x \in R : ~IsExpired(x.e)},
                    Cardinality(expired) + Cardinality({x \in R : IsExpired(x.e)}))

(* a CollectGarbage that cleans the user buckets and skips the revoked set *)
BackendCollectGarbageBucketsOnly(st, S, R) ==
    IF Corrupt(st) THEN Result("database is corrupt", S, R, 0)
    ELSE LET expired == UNION {{x \in S[u] : IsExpired(x.e)} : u \in DOMAIN S}
         IN  Result("", [u \in DOMAIN S |-> {x \in S[u] : ~IsExpired(x.e)}], R,
                    Cardinality(expired))

(* a CollectGarbage that empties the revoked set, expired or not *)
BackendCollectGarbageAllRevoked(st, S, R) ==
    IF Corrupt(st) THEN Result("database is corrupt", S, R, 0)
    ELSE LET expired == UNION {{x \in S[u] : IsExpired(x.e)} : u \in DOMAIN S}
         IN  Result("", [u \in DOMAIN S |-> {x \in S[u] : ~IsExpired(x.e)}], {},
                    Cardinality(expired))

BackendCollectGarbage(st, S, R) ==
    IF Corrupt(st) THEN Result("database is corrupt", S, R, 0)
    ELSE LET expired == UNION {{x \in S[u] : IsExpired(x.e)} : u \in DOMAIN S}
         IN  Result("", [u \in DOMAIN S |-> {x \in S[u] : ~IsExpired(x.e)}],
                    {x \in R : ~IsExpired(x.e)}, Cardinality(expired))

---------------------------------------------------------------------------
(* Cookie values. A payload stands for the bytes that are signed: either   *)
(* the 16 bytes of a ULID followed by the JSON of a SessionBase, or the    *)
(* JSON array of a revocation list. A cookie string that decodes carries   *)
(* a payload and a signature.                                              *)

ulidLength == 16

SessionPayload(id, u, e) == [t |-> "session", id |-> id, u |-> u, e |-> e, items |-> <<>>]

ListPayload(list) == [t |-> "list", id |-> NoID, u |-> "", e |-> 0, items |-> list]

(* number of bytes: {"u":"..","e":..} has at least 14 bytes, [] has 2 and  *)
(* an entry {"id":"<26 characters>","u":"..","e":..} at least 48           *)
(* the JSON value null *)
NullPayload == [t |-> "null", id |-> NoID, u |-> "", e |-> 0, items |-> <<>>]

(* a marshalling that leaves the empty list to encoding/json, which writes *)
(* a nil slice as null                                                     *)
SessionListMarshalDefault(l) == IF Len(l) = 0 THEN NullPayload ELSE ListPayload(l)

(* SessionList.MarshalJSON: [] for a list without entries, nil or not *)
SessionListMarshalJSON(l) == IF Len(l) = 0 THEN ListPayload(<<>>) ELSE ListPayload(l)

(* SessionFullList.MarshalJSON, the same for the sessions of a user *)
SessionFullListMarshalJSON(l) == IF Len(l) = 0 THEN ListPayload(<<>>) ELSE ListPayload(l)

PayloadLen(p) ==
    IF p.t = "session" THEN ulidLength + 14
    ELSE IF p.t = "list" THEN 2 + 48 * Len(p.items)
    ELSE IF p.t = "null" THEN 4
    ELSE 0

CookieString(payload, signature) == [wf |-> TRUE, payload |-> payload, signature |-> signature]

Malformed == [wf |-> FALSE, payload |-> NoPayload, signature |-> NoSignature]

MakeValue(id, s) == SessionPayload(id, s.u, s.e)

(* Value.FromString: "" when the string decodes *)
FromString(str) ==
    IF ~str.wf THEN "malformed"
    ELSE IF PayloadLen(str.payload) <= ulidLength THEN "malformed"
    ELSE ""

(* Value.Session parses payload[16:] as a SessionBase *)
PayloadParses(payload) == payload.t = "session"

NoSession == Session(NoID, "", 0)

Returned(err, val) == [err |-> err, val |-> val]

---------------------------------------------------------------------------
(* The store: Store.New, Store.verify *)

NewID(rnd) == [ts |-> now, rnd |-> rnd]

(* a New that hands out the cookie whatever Save returned *)
StoreNewUnsaved(st, u, agent, id) ==
    IF Signer(st) = NoKey
    THEN [err |-> "no signing key loaded", value |-> Malformed, S |-> sessions[st]]
    ELSE LET e     == SetExpiry(Lifetime)
             v     == MakeValue(id, [u |-> u, e |-> e])
             sig   == Ed25519Sign(Signer(st), v)
             saved == BackendSave(st, sessions[st], revoked[st], Stored(id, u, e, agent))
         IN  [err |-> "", value |-> CookieString(v, sig), S |-> saved.S]

StoreNew(st, u, agent, id) ==
    IF Signer(st) = NoKey
    THEN [err |-> "no signing key loaded", value |-> Malformed, S |-> sessions[st]]
    ELSE LET e     == SetExpiry(Lifetime)
             v     == MakeValue(id, [u |-> u, e |-> e])
             sig   == Ed25519Sign(Signer(st), v)
             saved == BackendSave(st, sessions[st], revoked[st], Stored(id, u, e, agent))
         IN  IF saved.err # ""
             THEN [err |-> saved.err, value |-> Malformed, S |-> saved.S]
             ELSE [err |-> "", value |-> CookieString(v, sig), S |-> saved.S]

(* a verify that asks the back-end before it looks at the expiry *)
StoreVerifyRevokedFirst(st, str) ==
    IF FromString(str) # "" THEN Returned("malformed", NoSession)
    ELSE IF ~KeysAccept(Keys(st), str.payload, str.signature)
    THEN Returned("cookie signature is not valid", NoSession)
    ELSE IF ~PayloadParses(str.payload)
    THEN Returned("unable to decode cookie", NoSession)
    ELSE LET s == Session(str.payload.id, str.payload.u, str.payload.e)
             r == BackendIsRevoked(st, revoked[st], s)
         IN  IF r.err # "" THEN Returned("failed to check for cookie revocation", s)
             ELSE IF r.revoked THEN Returned("cookie is revoked", s)
             ELSE IF IsExpired(s.e) THEN Returned("cookie is expired", s)
             ELSE Returned("", s)

(* a verify that accepts only sessions of the store's own active buckets *)
StoreVerifyActiveOnly(st, str) ==
    IF FromString(str) # "" THEN Returned("malformed", NoSession)
    ELSE IF ~KeysAccept(Keys(st), str.payload, str.signature)
    THEN Returned("cookie signature is not valid", NoSession)
    ELSE IF ~PayloadParses(str.payload)
    THEN Returned("unable to decode cookie", NoSession)
    ELSE LET s == Session(str.payload.id, str.payload.u, str.payload.e)
             r == BackendIsRevoked(st, revoked[st], s)
         IN  IF IsExpired(s.e) THEN Returned("cookie is expired", s)
             ELSE IF r.err # "" THEN Returned("failed to check for cookie revocation", s)
             ELSE IF r.revoked THEN Returned("cookie is revoked", s)
             ELSE IF ~Has(sessions[st][s.u], s.id) THEN Returned("session unknown", s)
             ELSE Returned("", s)

StoreVerify(st, str) ==
    IF FromString(str) # "" THEN Returned("malformed", NoSession)
    ELSE IF ~KeysAccept(Keys(st), str.payload, str.signature)
    THEN Returned("cookie signature is not valid", NoSession)
    ELSE IF ~PayloadParses(str.payload)
    THEN Returned("unable to decode cookie", NoSession)
    ELSE LET s == Session(str.payload.id, str.payload.u, str.payload.e)
             r == BackendIsRevoked(st, revoked[st], s)
         IN  IF IsExpired(s.e) THEN Returned("cookie is expired", s)
             ELSE IF r.err # "" THEN Returned("failed to check for cookie revocation", s)
             ELSE IF r.revoked THEN Returned("cookie is revoked", s)
             ELSE Returned("", s)

(* Store.ListRevoked: the marshalled list, signed when a signer is loaded *)
StoreListRevoked(st) ==
    LET l == BackendListRevoked(st, revoked[st])
    IN  IF l.err # "" THEN [err |-> l.err, revoked |-> NoPayload, signature |-> NoSignature]
        ELSE [err |-> "", revoked |-> SessionListMarshalJSON(l.list),
              signature |-> IF Signer(st) = NoKey THEN NoSignature
                            ELSE Ed25519Sign(Signer(st), SessionListMarshalJSON(l.list))]

---------------------------------------------------------------------------
(* Revocation sync: the response of GET /revocations and what              *)
(* Store.syncRevocations does with it                                      *)

RevokedOn(st) == {s.id : s \in loggedOut[st]}

Response(kind, status, payload, signature) ==
    [kind |-> kind, status |-> status, revoked |-> payload, signature |-> signature,
     covers |-> RevokedOn("signer")]

Idle == [kind |-> "idle", status |-> 0, revoked |-> NoPayload, signature |-> NoSignature,
         covers |-> {}]

SessionOf(c) == Session(c.payload.id, c.payload.u, c.payload.e)

(* responses that carry no signed list: transport error, 401, a body that  *)
(* is no JSON, a cookie payload with its signature in place of the list    *)
BadResponses ==
    {Response("error", 0, NoPayload, NoSignature),
     Response("http", 401, NoPayload, NoSignature),
     Response("http", 200, NoPayload, NoSignature)}
    \cup {Response("http", 200, c.payload, c.signature) : c \in cookies}

(* what a store may receive from an upstream that holds the signing key    *)
(* and has revoked any of the sessions handed out so far: a list with its  *)
(* signature, with the signature of the empty list, or with none           *)
UpstreamLists == {InOrder(X) : X \in SUBSET {SessionOf(c) : c \in cookies}}

UpstreamResponses ==
    BadResponses
    \cup UNION {{Response("http", 200, ListPayload(l), Ed25519Sign(SignerKeys[1], ListPayload(k))) :
                   k \in {l, <<>>}} : l \in UpstreamLists}
    \cup {Response("http", 200, ListPayload(l), NoSignature) : l \in UpstreamLists}

(* json.Decoder.Decode into SignedRevocationList: the revoked field must   *)
(* hold a JSON value                                                       *)
DecodesAsSigned(resp) == resp.revoked.t \in {"list", "null"}

(* json.Unmarshal of the revoked field into a SessionList *)
ParsesAsList(payload) == payload.t \in {"list", "null"}

(* a syncRevocations that parses the list without verifying the signature *)
SyncRevocationsUnverified(st, resp) ==
    LET fail == [ok |-> FALSE, loaded |-> FALSE, R |-> revoked[st], cnt |-> 0]
    IN  IF resp.kind = "error" THEN fail
        ELSE IF resp.status # 200 THEN fail
        ELSE IF ~DecodesAsSigned(resp) THEN fail
        ELSE IF ~ParsesAsList(resp.revoked) THEN fail
        ELSE LET l == BackendLoadRevocations(st, sessions[st], revoked[st], resp.revoked.items)
             IN  [ok |-> l.err = "", loaded |-> TRUE, R |-> l.R, cnt |-> l.cnt]

(* Store.syncRevocations: [ok, loaded, R, cnt], loaded telling whether     *)
(* LoadRevocations was called                                              *)
SyncRevocations(st, resp) ==
    LET fail == [ok |-> FALSE, loaded |-> FALSE, R |-> revoked[st], cnt |-> 0]
    IN  IF resp.kind = "error" THEN fail
        ELSE IF resp.status # 200 THEN fail
        ELSE IF ~DecodesAsSigned(resp) THEN fail
        ELSE IF ~KeysAccept(Keys(st), resp.revoked, resp.signature) THEN fail
        ELSE IF ~ParsesAsList(resp.revoked) THEN fail
        ELSE LET l == BackendLoadRevocations(st, sessions[st], revoked[st], resp.revoked.items)
             IN  [ok |-> l.err = "", loaded |-> TRUE, R |-> l.R, cnt |-> l.cnt]

---------------------------------------------------------------------------
(* Goroutines. The request handlers, the GC loop and the sync loop of the  *)
(* peer call its back-end concurrently; a call holds the back-end's lock   *)
(* (the RWMutex of InMemoryBackend, the transaction of BoltBackend) from   *)
(* its first statement to its return.                                      *)

Handlers == {"h1", "h2"}

(* initBackend starts one goroutine for each loop *)
GCLoopsTwo == {"gc", "gc2"}

GCLoops == {"gc"}

SyncLoops == {"sync"}

Goroutines == Handlers \cup {"gc", "gc2", "sync"}

NoTx == [S |-> [u \in Users |-> {}], R |-> {}]

IdleCall == [op |-> "", pc |-> "idle", s |-> [id |-> [ts |-> -1, rnd |-> 0], u |-> "", e |-> 0],
             list |-> <<>>, tx |-> NoTx, err |-> "", found |-> FALSE, listed |-> FALSE]

Free == [w |-> "", r |-> {}]

ConcInit ==
    /\ mutex = Free
    /\ calls = [g \in Goroutines |-> IdleCall]
    /\ loops = [g \in GCLoopsTwo \cup SyncLoops |-> 0]

---------------------------------------------------------------------------
(* State machine *)

Ret(op, st, err) == [op |-> op, st |-> st, err |-> err]

Init ==
    /\ now = 0
    /\ deploy \in {[signer |-> SignerConfig, peer |-> p] : p \in PeerConfigs}
    /\ sessions = [st \in Stores |-> [u \in Users |-> {}]]
    /\ revoked = [st \in Stores |-> {}]
    /\ cookies = {}
    /\ verified = [st \in Stores |-> {}]
    /\ inflight = Idle
    /\ loggedOut = [st \in Stores |-> {}]
    /\ synced = {}
    /\ ticked = {}
    /\ ret = Ret("init", "", "")
    /\ ConcInit

(* the clock advances *)
Tick ==
    /\ now < MaxTime
    /\ now' = now + 1
    /\ ret' = Ret("Tick", "", "")
    /\ UNCHANGED <<deploy, sessions, revoked, cookies, verified, inflight, loggedOut, synced, ticked>>
    /\ UNCHANGED conc

(* Store.New(username, agent), id being what ulid.Make() returns *)
New(st, u, id) ==
    /\ Cardinality(cookies) < MaxMint
    /\ LET r == StoreNew(st, u, TestAgent, id)
       IN  /\ sessions' = [sessions EXCEPT ![st] = r.S]
           /\ cookies' = IF r.err = "" THEN cookies \cup {r.value} ELSE cookies
           /\ ret' = Ret("New", st, r.err)
    /\ UNCHANGED <<now, deploy, revoked, verified, inflight, loggedOut, synced, ticked>>
    /\ UNCHANGED conc

(* Store.Verify(value); a handler keeps the session it got back *)
Verify(st, str) ==
    /\ LET r == StoreVerify(st, str)
       IN  /\ verified' = IF r.err = "" THEN [verified EXCEPT ![st] = @ \cup {r.val}] ELSE verified
           /\ ret' = Ret("Verify", st, r.err)
    /\ UNCHANGED <<now, deploy, sessions, revoked, cookies, inflight, loggedOut, synced, ticked>>
    /\ UNCHANGED conc

(* Store.Revoke(session), called by the logout handler with a session that *)
(* Verify returned                                                         *)
Revoke(st, s) ==
    /\ s \in verified[st]
    /\ LET r == BackendRevoke(st, sessions[st], revoked[st], s)
       IN  /\ sessions' = [sessions EXCEPT ![st] = r.S]
           /\ revoked' = [revoked EXCEPT ![st] = r.R]
           /\ loggedOut' = IF r.err = "" THEN [loggedOut EXCEPT ![st] = @ \cup {s}] ELSE loggedOut
           /\ ret' = Ret("Revoke", st, r.err)
    /\ UNCHANGED <<now, deploy, cookies, verified, inflight, synced, ticked>>
    /\ UNCHANGED conc

(* Store.RevokeID(username, id), called by the logout handler with the     *)
(* user name of a verified session and the id of the request               *)
RevokeID(st, u, id) ==
    /\ \E s \in verified[st] : s.u = u
    /\ LET r == BackendRevokeID(st, sessions[st], revoked[st], u, id)
       IN  /\ sessions' = [sessions EXCEPT ![st] = r.S]
           /\ revoked' = [revoked EXCEPT ![st] = r.R]
           /\ ret' = Ret("RevokeID", st, r.err)
    /\ UNCHANGED <<now, deploy, cookies, verified, inflight, loggedOut, synced, ticked>>
    /\ UNCHANGED conc

(* Store.ListUser(username), called by the sessions handler with the user  *)
(* name of a verified session                                              *)
ListUser(st, u) ==
    /\ \E s \in verified[st] : s.u = u
    /\ ret' = Ret("ListUser", st, BackendListUser(st, sessions[st], u).err)
    /\ UNCHANGED <<now, deploy, sessions, revoked, cookies, verified, inflight,
                   loggedOut, synced, ticked>>
    /\ UNCHANGED conc

(* Store.ListRevoked(), called by the revocations handler *)
ListRevoked(st) ==
    /\ ret' = Ret("ListRevoked", st, StoreListRevoked(st).err)
    /\ UNCHANGED <<now, deploy, sessions, revoked, cookies, verified, inflight,
                   loggedOut, synced, ticked>>
    /\ UNCHANGED conc

(* one round of Store.runGC *)
CollectGarbage(st) ==
    /\ LET r == BackendCollectGarbage(st, sessions[st], revoked[st])
       IN  /\ sessions' = [sessions EXCEPT ![st] = r.S]
           /\ revoked' = [revoked EXCEPT ![st] = r.R]
           /\ ret' = Ret("CollectGarbage", st, r.err)
    /\ UNCHANGED <<now, deploy, cookies, verified, inflight, loggedOut, synced, ticked>>
    /\ UNCHANGED conc

(* Store.runSync on the peer: a tick sends the request ... *)
SyncRequest(resp) ==
    /\ inflight = Idle
    /\ inflight' = resp
    /\ ret' = Ret("SyncRequest", "peer", "")
    /\ UNCHANGED <<now, deploy, sessions, revoked, cookies, verified, loggedOut, synced, ticked>>
    /\ UNCHANGED conc

(* ... and Store.syncRevocations handles the response *)
SyncComplete ==
    /\ inflight # Idle
    /\ LET r == SyncRevocations("peer", inflight)
       IN  /\ revoked' = [revoked EXCEPT !["peer"] = r.R]
           /\ synced' = IF r.ok THEN synced \cup inflight.covers ELSE synced
           /\ ticked' = IF r.ok THEN ticked \cup RevokedOn("signer") ELSE ticked
           /\ ret' = Ret("syncRevocations", "peer", IF r.ok THEN "" ELSE "failed")
    /\ inflight' = Idle
    /\ UNCHANGED <<now, deploy, sessions, cookies, verified, loggedOut>>
    /\ UNCHANGED conc

(* a whole tick of Store.runSync, request and response *)
SyncTick(resp) ==
    /\ inflight = Idle
    /\ LET r == SyncRevocations("peer", resp)
       IN  /\ revoked' = [revoked EXCEPT !["peer"] = r.R]
           /\ ret' = Ret("syncRevocations", "peer", IF r.ok THEN "" ELSE "failed")
    /\ UNCHANGED <<now, deploy, sessions, cookies, verified, inflight, loggedOut, synced, ticked>>
    /\ UNCHANGED conc

---------------------------------------------------------------------------
(* Inputs *)

IDsNow == {NewID(rnd) : rnd \in Rands}

UsedIDs ==
    {c.payload.id : c \in cookies}
    \cup UNION {{x.id : x \in revoked[st]} : st \in Stores}
    \cup UNION {{x.id : x \in sessions[st][u]} : st \in Stores, u \in Users}

(* a cookie whose expiry a client has raised, keeping the signature *)
Tampered(c) ==
    CookieString(SessionPayload(c.payload.id, c.payload.u, c.payload.e + 1), c.signature)

(* a signed revocation list sent as a cookie *)
ListAsCookie(l) == CookieString(ListPayload(l), Ed25519Sign(SignerKeys[1], ListPayload(l)))

CookieInputs ==
    {Malformed} \cup cookies \cup {Tampered(c) : c \in cookies}
    \cup {ListAsCookie(l) : l \in UpstreamLists}

RequestIDs == {c.payload.id : c \in cookies} \cup {UnknownID}

---------------------------------------------------------------------------
(* Spec: one store, the peer, with every operation, behind a signer that   *)
(* hands out cookies and an upstream that serves revocation lists.         *)
(* ulid.Make() may return an identifier that exists already.               *)

(* cookies come from the peer when it can sign, else from the signer too *)
Minters == IF Signer("peer") # NoKey THEN {"peer"} ELSE Stores

Local ==
    \/ Tick
    \/ \E str \in CookieInputs : Verify("peer", str)
    \/ \E s \in verified["peer"] : Revoke("peer", s)
    \/ \E u \in Users, id \in RequestIDs : RevokeID("peer", u, id)
    \/ CollectGarbage("peer")
    \/ \E resp \in UpstreamResponses : SyncTick(resp)
    \/ \E u \in Users : ListUser("peer", u)
    \/ ListRevoked("peer")

Next ==
    \/ \E st \in Minters, u \in Users, id \in IDsNow : New(st, u, id)
    \/ Local

Spec == Init /\ [][Next]_vars

(* SpecUnique: the same, with identifiers unique across the deployment *)
NextUnique ==
    \/ \E st \in Minters, u \in Users, id \in IDsNow \ UsedIDs : New(st, u, id)
    \/ Local

SpecUnique == Init /\ [][NextUnique]_vars

(* SpecSync: the signer and a verify-only peer that pulls the revocation   *)
(* list of the signer, each with its own back-end, Verify, Revoke and GC   *)
SyncResponses ==
    LET lr == StoreListRevoked("signer")
    IN  {Response("error", 0, NoPayload, NoSignature),
         IF lr.err # "" THEN Response("http", 500, NoPayload, NoSignature)
         ELSE Response("http", 200, lr.revoked, lr.signature)}

NextSync ==
    \/ Tick
    \/ \E id \in IDsNow \ UsedIDs :
          Cardinality(cookies) < MaxSyncMint /\ New("signer", "alice", id)
    \/ \E st \in Stores, c \in cookies : Verify(st, c)
    \/ \E st \in Stores : \E s \in verified[st] : Revoke(st, s)
    \/ \E c \in cookies : RevokeID("peer", c.payload.u, c.payload.id)
    \/ \E st \in Stores : CollectGarbage(st)
    \/ \E resp \in SyncResponses : SyncRequest(resp)
    \/ SyncComplete

InitSync ==
    /\ Init
    /\ Signer("peer") = NoKey
    /\ ~Corrupt("peer")
    /\ \E i \in DOMAIN Keys("peer") : Keys("peer")[i].ctx = SignerKeys[1].ctx

SpecSync == InitSync /\ [][NextSync]_vars

(* SpecGC: the peer with the garbage collector of Store.runGC, whose      *)
(* ticker keeps firing: a round of CollectGarbage that would change        *)
(* something is not postponed for ever                                     *)
NextGC ==
    \/ Tick
    \/ \E st \in Minters, u \in Users, id \in IDsNow \ UsedIDs : New(st, u, id)
    \/ \E c \in cookies : Verify("peer", c)
    \/ \E s \in verified["peer"] : Revoke("peer", s)
    \/ \E resp \in UpstreamResponses : SyncTick(resp)
    \/ CollectGarbage("peer")

SpecGC == Init /\ [][NextGC]_vars /\ WF_vars(CollectGarbage("peer"))

(* SpecKeys: a peer with an in-memory back-end and any list of one to     *)
(* MaxKeys keys, each with or without its private part; both stores hand  *)
(* out cookies and the peer verifies them                                 *)
MaxKeys == 3

KeyNames == {"k0", "k1"}

KeyMaterials == {"m0", "m1"}

ConfiguredKeys ==
    {Ed25519Key(n, m, p) : n \in KeyNames, m \in KeyMaterials, p \in BOOLEAN}

KeyLists == UNION {[1..n -> ConfiguredKeys] : n \in 1..MaxKeys}

InitKeys ==
    /\ now = 0
    /\ deploy \in {[signer |-> SignerConfig,
                    peer |-> [keys |-> k, kind |-> "in-memory", buckets |-> TRUE]] :
                        k \in KeyLists}
    /\ sessions = [st \in Stores |-> [u \in Users |-> {}]]
    /\ revoked = [st \in Stores |-> {}]
    /\ cookies = {}
    /\ verified = [st \in Stores |-> {}]
    /\ inflight = Idle
    /\ loggedOut = [st \in Stores |-> {}]
    /\ synced = {}
    /\ ticked = {}
    /\ ret = Ret("init", "", "")
    /\ ConcInit

NextKeys ==
    \/ \E st \in Stores, id \in IDsNow : New(st, "alice", id)
    \/ \E str \in CookieInputs : Verify("peer", str)

SpecKeys == InitKeys /\ [][NextKeys]_vars

---------------------------------------------------------------------------
(* The cookie codec on bytes: MakeValue, Value.String, Value.FromString,   *)
(* Value.Session and Value.ID. A byte is a number in 0..255, a string the  *)
(* sequence of its bytes, a SessionBase the record [u, e] with u the bytes *)
(* of the user name and a SID its 16 bytes.                                *)

(* base64.RawURLEncoding: the alphabet A-Z a-z 0-9 - _ and no padding *)
Base64URLChar(i) ==
    IF i < 26 THEN 65 + i
    ELSE IF i < 52 THEN 97 + (i - 26)
    ELSE IF i < 62 THEN 48 + (i - 52)
    ELSE IF i = 62 THEN 45
    ELSE 95

(* the place of a character in the alphabet, -1 for any other character *)
Base64URLIndex(c) ==
    IF c \in 65..90 THEN c - 65
    ELSE IF c \in 97..122 THEN c - 97 + 26
    ELSE IF c \in 48..57 THEN c - 48 + 52
    ELSE IF c = 45 THEN 62
    ELSE IF c = 95 THEN 63
    ELSE -1

RECURSIVE Base64Encode(_)
Base64Encode(b) ==
    IF Len(b) = 0 THEN <<>>
    ELSE IF Len(b) = 1
    THEN <<Base64URLChar(b[1] \div 4), Base64URLChar((b[1] % 4) * 16)>>
    ELSE IF Len(b) = 2
    THEN <<Base64URLChar(b[1] \div 4), Base64URLChar((b[1] % 4) * 16 + b[2] \div 16),
           Base64URLChar((b[2] % 16) * 4)>>
    ELSE <<Base64URLChar(b[1] \div 4), Base64URLChar((b[1] % 4) * 16 + b[2] \div 16),
           Base64URLChar((b[2] % 16) * 4 + b[3] \div 64), Base64URLChar(b[3] % 64)>>
         \o Base64Encode(SubSeq(b, 4, Len(b)))

(* base64.StdEncoding-like output: the same characters, padded with = *)
Base64EncodePadded(b) ==
    LET e == Base64Encode(b)
    IN  IF Len(e) % 4 = 0 THEN e
        ELSE IF Len(e) % 4 = 3 THEN e \o <<61>>
        ELSE e \o <<61, 61>>

(* the quanta of four characters; a last quantum of two or three           *)
(* characters gives one or two bytes, one character alone is an error      *)
RECURSIVE Base64DecodeQuanta(_)
Base64DecodeQuanta(s) ==
    LET bad  == [ok |-> FALSE, bytes |-> <<>>]
        n    == Len(s)
        q(i) == Base64URLIndex(s[i])
    IN  IF n = 0 THEN [ok |-> TRUE, bytes |-> <<>>]
        ELSE IF n = 1 THEN bad
        ELSE IF q(1) < 0 \/ q(2) < 0 THEN bad
        ELSE IF n = 2 THEN [ok |-> TRUE, bytes |-> <<q(1) * 4 + q(2) \div 16>>]
        ELSE IF q(3) < 0 THEN bad
        ELSE IF n = 3
        THEN [ok |-> TRUE,
              bytes |-> <<q(1) * 4 + q(2) \div 16, (q(2) % 16) * 16 + q(3) \div 4>>]
        ELSE IF q(4) < 0 THEN bad
        ELSE LET rest == Base64DecodeQuanta(SubSeq(s, 5, n))
             IN  IF ~rest.ok THEN bad
                 ELSE [ok |-> TRUE,
                       bytes |-> <<q(1) * 4 + q(2) \div 16, (q(2) % 16) * 16 + q(3) \div 4,
                                   (q(3) % 4) * 64 + q(4)>> \o rest.bytes]

IsNewline(c) == c \in {10, 13}

NotNewline(c) == ~IsNewline(c)

(* DecodeString: carriage returns and line feeds in the input are skipped *)
Base64Decode(s) == Base64DecodeQuanta(SelectSeq(s, NotNewline))

(* encoding/json on a SessionBase. The user names of the model are made of *)
(* ASCII bytes other than 8, 12 and 127, of two-byte UTF-8 sequences and   *)
(* of bytes that belong to no UTF-8 sequence.                             *)
Hex(d) == IF d < 10 THEN 48 + d ELSE 97 + (d - 10)

HexValue(c) ==
    IF c \in 48..57 THEN c - 48
    ELSE IF c \in 97..102 THEN c - 87
    ELSE IF c \in 65..70 THEN c - 55
    ELSE -1

IsLead2(b) == b \in 194..223

IsCont(b) == b \in 128..191

(* the bytes U+FFFD is written as in UTF-8 *)
RuneError == <<239, 191, 189>>

(* the UTF-8 form of a code point below 65536 *)
UTF8Encode(cp) ==
    IF cp < 128 THEN <<cp>>
    ELSE IF cp < 2048 THEN <<192 + cp \div 64, 128 + (cp % 64)>>
    ELSE <<224 + cp \div 4096, 128 + ((cp \div 64) % 64), 128 + (cp % 64)>>

(* TRUE when the bytes from position i on are UTF-8 *)
RECURSIVE ValidUTF8(_, _)
ValidUTF8(s, i) ==
    IF i > Len(s) THEN TRUE
    ELSE IF s[i] < 128 THEN ValidUTF8(s, i + 1)
    ELSE IF IsLead2(s[i]) /\ i < Len(s) /\ IsCont(s[i + 1]) THEN ValidUTF8(s, i + 2)
    ELSE FALSE

(* the string with each byte that is not UTF-8 replaced by U+FFFD *)
RECURSIVE ToValidUTF8(_, _)
ToValidUTF8(s, i) ==
    IF i > Len(s) THEN <<>>
    ELSE IF s[i] < 128 THEN <<s[i]>> \o ToValidUTF8(s, i + 1)
    ELSE IF IsLead2(s[i]) /\ i < Len(s) /\ IsCont(s[i + 1])
    THEN <<s[i], s[i + 1]>> \o ToValidUTF8(s, i + 2)
    ELSE RuneError \o ToValidUTF8(s, i + 1)

(* the body of a JSON string as json.Marshal writes it: \" \\ \n \r \t,    *)
(* \u00xx for the other control characters and for < > &, \ufffd for a   *)
(* byte that is not UTF-8, every other byte as it is                       *)
RECURSIVE JSONEscape(_, _)
JSONEscape(s, i) ==
    IF i > Len(s) THEN <<>>
    ELSE LET b == s[i]
         IN  IF b < 128
             THEN (IF b = 34 THEN <<92, 34>>
                   ELSE IF b = 92 THEN <<92, 92>>
                   ELSE IF b = 10 THEN <<92, 110>>
                   ELSE IF b = 13 THEN <<92, 114>>
                   ELSE IF b = 9 THEN <<92, 116>>
                   ELSE IF b < 32 \/ b \in {60, 62, 38}
                   THEN <<92, 117, 48, 48, Hex(b \div 16), Hex(b % 16)>>
                   ELSE <<b>>) \o JSONEscape(s, i + 1)
             ELSE IF IsLead2(b) /\ i < Len(s) /\ IsCont(s[i + 1])
             THEN <<b, s[i + 1]>> \o JSONEscape(s, i + 2)
             ELSE <<92, 117, 102, 102, 102, 100>> \o JSONEscape(s, i + 1)

RECURSIVE Digits(_)
Digits(n) == IF n < 10 THEN <<48 + n>> ELSE Digits(n \div 10) \o <<48 + (n % 10)>>

FormatInt(e) == IF e < 0 THEN <<45>> \o Digits(-e) ELSE Digits(e)

(* json.Marshal(SessionBase): {"u":"...","e":...} *)
MarshalSessionBase(s) ==
    <<123, 34, 117, 34, 58, 34>> \o JSONEscape(s.u, 1) \o <<34>>
    \o <<44, 34, 101, 34, 58>> \o FormatInt(s.e) \o <<125>>

(* the JSON string whose body starts at position i: [ok, val, next] *)
RECURSIVE ScanString(_, _)
ScanString(b, i) ==
    LET bad == [ok |-> FALSE, val |-> <<>>, next |-> i]
        more(bytes, j) ==
            LET r == ScanString(b, j)
            IN  IF r.ok THEN [ok |-> TRUE, val |-> bytes \o r.val, next |-> r.next] ELSE bad
    IN  IF i > Len(b) THEN bad
        ELSE IF b[i] = 34 THEN [ok |-> TRUE, val |-> <<>>, next |-> i + 1]
        ELSE IF b[i] < 32 THEN bad
        ELSE IF b[i] = 92
        THEN IF i + 1 > Len(b) THEN bad
             ELSE IF b[i + 1] \in {34, 92, 47} THEN more(<<b[i + 1]>>, i + 2)
             ELSE IF b[i + 1] = 110 THEN more(<<10>>, i + 2)
             ELSE IF b[i + 1] = 114 THEN more(<<13>>, i + 2)
             ELSE IF b[i + 1] = 116 THEN more(<<9>>, i + 2)
             ELSE IF b[i + 1] = 98 THEN more(<<8>>, i + 2)
             ELSE IF b[i + 1] = 102 THEN more(<<12>>, i + 2)
             ELSE IF b[i + 1] = 117
             THEN IF i + 5 > Len(b) THEN bad
                  ELSE IF \E k \in 2..5 : HexValue(b[i + k]) < 0 THEN bad
                  ELSE more(UTF8Encode(HexValue(b[i + 2]) * 4096 + HexValue(b[i + 3]) * 256
                                       + HexValue(b[i + 4]) * 16 + HexValue(b[i + 5])), i + 6)
             ELSE bad
        ELSE IF b[i] < 128 THEN more(<<b[i]>>, i + 1)
        ELSE IF IsLead2(b[i]) /\ i < Len(b) /\ IsCont(b[i + 1]) THEN more(<<b[i], b[i + 1]>>, i + 2)
        ELSE more(RuneError, i + 1)

(* the value of the digits from position i on: [val, next] *)
RECURSIVE ScanDigits(_, _, _)
ScanDigits(b, i, acc) ==
    IF i <= Len(b) /\ b[i] \in 48..57 THEN ScanDigits(b, i + 1, acc * 10 + (b[i] - 48))
    ELSE [val |-> acc, next |-> i]

(* a JSON integer at position i: [ok, val, next] *)
ScanInt(b, i) ==
    LET neg   == i <= Len(b) /\ b[i] = 45
        first == IF neg THEN i + 1 ELSE i
        d     == ScanDigits(b, first, 0)
    IN  IF d.next = first THEN [ok |-> FALSE, val |-> 0, next |-> i]
        ELSE IF b[first] = 48 /\ d.next > first + 1 THEN [ok |-> FALSE, val |-> 0, next |-> i]
        ELSE [ok |-> TRUE, val |-> IF neg THEN -d.val ELSE d.val, next |-> d.next]

HasAt(b, i, lit) == i + Len(lit) - 1 <= Len(b) /\ SubSeq(b, i, i + Len(lit) - 1) = lit

(* json.Unmarshal into a SessionBase of an object laid out as json.Marshal *)
(* lays it out; other layouts of the object are not part of the model     *)
UnmarshalSessionBase(b) ==
    LET bad == [ok |-> FALSE, s |-> [u |-> <<>>, e |-> 0]]
    IN  IF ~HasAt(b, 1, <<123, 34, 117, 34, 58, 34>>) THEN bad
        ELSE LET u == ScanString(b, 7)
             IN  IF ~u.ok THEN bad
                 ELSE IF ~HasAt(b, u.next, <<44, 34, 101, 34, 58>>) THEN bad
                 ELSE LET e == ScanInt(b, u.next + 5)
                      IN  IF ~e.ok THEN bad
                          ELSE IF ~(e.next = Len(b) /\ b[e.next] = 125) THEN bad
                          ELSE [ok |-> TRUE, s |-> [u |-> u.val, e |-> e.val]]

(* MakeValue: the 16 bytes of the SID, then the JSON of the SessionBase *)
MakeValueBytes(id, s) == id \o MarshalSessionBase(s)

(* a String that pads the two halves *)
ValueStringPadded(v) ==
    Base64EncodePadded(v.payload) \o <<46>> \o Base64EncodePadded(v.signature)

(* Value.String: the two halves in base64, a dot between them *)
ValueString(v) == Base64Encode(v.payload) \o <<46>> \o Base64Encode(v.signature)

(* the first position of character c in str from i on, 0 if there is none *)
RECURSIVE IndexFrom(_, _, _)
IndexFrom(str, c, i) ==
    IF i > Len(str) THEN 0
    ELSE IF str[i] = c THEN i
    ELSE IndexFrom(str, c, i + 1)

(* Value.FromString: [err, payload, signature] *)
ValueFromString(str) ==
    LET dot  == IndexFrom(str, 46, 1)
        fail == [err |-> "invalid cookie value", payload |-> <<>>, signature |-> <<>>]
    IN  IF dot = 0 THEN fail
        ELSE LET p0 == SubSeq(str, 1, dot - 1)
                 p1 == SubSeq(str, dot + 1, Len(str))
                 pl == Base64Decode(p0)
                 sg == Base64Decode(p1)
             IN  IF p0 = <<>> \/ p1 = <<>> THEN fail
                 ELSE IF ~pl.ok THEN fail
                 ELSE IF Len(pl.bytes) <= ulidLength THEN fail
                 ELSE IF ~sg.ok THEN fail
                 ELSE [err |-> "", payload |-> pl.bytes, signature |-> sg.bytes]

(* Value.Session: the SessionBase in payload[ulidLength:] *)
ValueSession(v) == UnmarshalSessionBase(SubSeq(v.payload, ulidLength + 1, Len(v.payload)))

(* Value.ID: payload[:ulidLength] *)
ValueID(v) == SubSeq(v.payload, 1, ulidLength)

(* SpecCodec: in each run one value is made of a SID, a SessionBase and a  *)
(* signature and written as a string, then the string is read back        *)
CodecIDs ==
    {[i \in 1..ulidLength |-> 0], [i \in 1..ulidLength |-> 255],
     [i \in 1..ulidLength |-> (i * 37) % 256]}

CodecUsers ==
    {<<>>, <<97>>, <<97, 108, 105, 99, 101>>, <<34>>, <<92, 97>>, <<60, 38, 62>>,
     <<10, 9, 1>>, <<46, 45, 95>>, <<195, 169>>, <<97, 223, 191, 98>>,
     <<255>>, <<97, 255, 98>>, <<195>>, <<169, 97>>}

CodecExpiries == {0, 7, 1700000000, -1}

CodecSignatures ==
    {<<0>>, <<255>>, <<1, 2>>, <<250, 251, 252>>, <<62, 63, 255, 254>>,
     [i \in 1..64 |-> (i * 7) % 256]}

Codec(op, err, in, out) == [op |-> op, st |-> "", err |-> err, in |-> in, out |-> out]

NoValue == [id |-> <<>>, s |-> [u |-> <<>>, e |-> 0], signature |-> <<>>]

(* MakeValue, the signature put in, String *)
Encode(id, s, signature) ==
    /\ ret.op = "init"
    /\ ret' = Codec("String", "", [id |-> id, s |-> s, signature |-> signature],
                    ValueString([payload |-> MakeValueBytes(id, s), signature |-> signature]))
    /\ UNCHANGED <<now, deploy, sessions, revoked, cookies, verified, inflight,
                   loggedOut, synced, ticked>>
    /\ UNCHANGED conc

(* FromString, then ID and Session *)
Decode ==
    /\ ret.op = "String"
    /\ LET v == ValueFromString(ret.out)
           s == ValueSession(v)
       IN  ret' = IF v.err # "" THEN Codec("FromString", v.err, ret.in, NoValue)
                  ELSE IF ~s.ok THEN Codec("FromString", "unable to decode cookie", ret.in, NoValue)
                  ELSE Codec("FromString", "", ret.in,
                             [id |-> ValueID(v), s |-> s.s, signature |-> v.signature])
    /\ UNCHANGED <<now, deploy, sessions, revoked, cookies, verified, inflight,
                   loggedOut, synced, ticked>>
    /\ UNCHANGED conc

(* strings handed to FromString: a payload half, the separator or none,   *)
(* and a signature half. The halves are those of TestValueFromString      *)
(* (foo, f and 21 or 22 times o, bar, with = / + or .blub) and variations *)
(* of them with a line feed, a carriage return, a space, one character    *)
(* more or less.                                                          *)
Chars(c, n) == [i \in 1..n |-> c]

PayloadHalves ==
    {<<>>, <<102, 111, 111>>,
     <<102>> \o Chars(111, 21), <<102>> \o Chars(111, 22), <<102>> \o Chars(111, 24),
     <<102>> \o Chars(111, 22) \o <<61>>, <<102>> \o Chars(111, 22) \o <<47>>,
     <<102>> \o Chars(111, 22) \o <<43>>, <<102>> \o Chars(111, 22) \o <<32>>,
     <<102>> \o Chars(111, 22) \o <<10>>, <<102>> \o Chars(111, 10) \o <<13>> \o Chars(111, 12),
     <<102>> \o Chars(111, 21) \o <<10>>, <<10>>,
     <<102>> \o Chars(111, 10) \o <<46>> \o Chars(111, 12),
     <<45, 95>> \o Chars(57, 21)}

SignatureHalves ==
    {<<>>, <<98, 97, 114>>, <<98>>, <<98, 97, 114, 61>>, <<98, 97, 47, 114>>,
     <<98, 97, 43, 114>>, <<98, 97, 114, 10>>, <<13, 98, 97, 114>>, <<13>>,
     <<98, 97, 114, 46, 98, 108, 117, 98>>, <<98, 97, 114, 95, 45>>}

Separators == {<<>>, <<46>>}

CodecStrings == {p \o d \o s : p \in PayloadHalves, d \in Separators, s \in SignatureHalves}

(* FromString on a string that comes from outside *)
Parse(str) ==
    /\ ret.op = "init"
    /\ ret' = Codec("Parse", ValueFromString(str).err, str, NoValue)
    /\ UNCHANGED <<now, deploy, sessions, revoked, cookies, verified, inflight,
                   loggedOut, synced, ticked>>
    /\ UNCHANGED conc

NextCodec ==
    \/ \E id \in CodecIDs, u \in CodecUsers, e \in CodecExpiries, sig \in CodecSignatures :
          Encode(id, [u |-> u, e |-> e], sig)
    \/ Decode
    \/ \E str \in CodecStrings : Parse(str)

InitCodec == Init /\ Signer("peer") # NoKey /\ ~Corrupt("peer")

SpecCodec == InitCodec /\ [][NextCodec]_vars

---------------------------------------------------------------------------
(* The web handlers of cmd/whawty-nginx-sso: GET /auth and GET             *)
(* /revocations. A header value is the sequence of its characters.        *)

Bearer == <<"B", "e", "a", "r", "e", "r">>

(* the token lists of the configuration: none, one, two *)
TokenSets ==
    {<<>>, << <<"t", "1">> >>, << <<"t", "1">>, <<"t", "2">> >>}

(* values of the Authorization header; <<>> is the request without one *)
AuthHeaders ==
    {<<>>, Bearer, Bearer \o <<" ">>, <<"t", "1">>,
     Bearer \o <<" ", "t", "1">>, Bearer \o <<" ", "t", "2">>, Bearer \o <<" ", "t", "3">>,
     Bearer \o <<" ", "t", "1", " ">>, Bearer \o <<" ", " ", "t", "1">>,
     <<"b", "e", "a", "r", "e", "r", " ", "t", "1">>,
     <<"B", "a", "s", "i", "c", " ", "t", "1">>,
     <<" ">> \o Bearer \o <<" ", "t", "1">>}

Tokens(st) == deploy[st].tokens

Web(op, st, status, err, req) ==
    [op |-> op, st |-> st, err |-> err, status |-> status, req |-> req]

(* HandlerContext.verifyCookie: no cookie of the configured name, or what *)
(* Store.Verify returns                                                   *)
VerifyCookie(st, present, str) ==
    IF ~present THEN Returned("http: named cookie not present", NoSession)
    ELSE StoreVerify(st, str)

(* HandlerContext.handleAuth: [status, err] *)
HandleAuth(st, present, str) ==
    LET r == VerifyCookie(st, present, str)
    IN  IF r.err # "" THEN [status |-> 401, err |-> r.err]
        ELSE [status |-> 200, err |-> ""]

(* a handleRevocations that compares the whole header with the tokens *)
HandleRevocationsNoScheme(st, hdr) ==
    IF hdr = <<>> THEN [status |-> 401, err |-> "no authorization header found"]
    ELSE IF ~\E i \in DOMAIN Tokens(st) : Tokens(st)[i] = hdr
    THEN [status |-> 401, err |-> "unauthorized token"]
    ELSE LET lr == StoreListRevoked(st)
         IN  IF lr.err # "" THEN [status |-> 500, err |-> lr.err]
             ELSE [status |-> 200, err |-> ""]

(* HandlerContext.handleRevocations: [status, err] *)
HandleRevocations(st, hdr) ==
    LET sp == IndexFrom(hdr, " ", 1)
    IN  IF hdr = <<>> THEN [status |-> 401, err |-> "no authorization header found"]
        ELSE IF sp = 0 \/ SubSeq(hdr, 1, sp - 1) # Bearer
        THEN [status |-> 401, err |-> "authorization header is invalid"]
        ELSE IF ~\E i \in DOMAIN Tokens(st) : Tokens(st)[i] = SubSeq(hdr, sp + 1, Len(hdr))
        THEN [status |-> 401, err |-> "unauthorized token"]
        ELSE LET lr == StoreListRevoked(st)
             IN  IF lr.err # "" THEN [status |-> 500, err |-> lr.err]
                 ELSE [status |-> 200, err |-> ""]

(* GET /auth *)
GetAuth(st, present, str) ==
    /\ LET r == HandleAuth(st, present, str)
       IN  ret' = Web("handleAuth", st, r.status, r.err, <<>>)
    /\ UNCHANGED <<now, deploy, sessions, revoked, cookies, verified, inflight,
                   loggedOut, synced, ticked>>
    /\ UNCHANGED conc

(* GET /revocations *)
GetRevocations(st, hdr) ==
    /\ LET r == HandleRevocations(st, hdr)
       IN  ret' = Web("handleRevocations", st, r.status, r.err, hdr)
    /\ UNCHANGED <<now, deploy, sessions, revoked, cookies, verified, inflight,
                   loggedOut, synced, ticked>>
    /\ UNCHANGED conc

(* SpecWeb: the peer behind its web handlers, with any of the token lists *)
InitWeb ==
    /\ now = 0
    /\ deploy \in {[signer |-> SignerConfig,
                    peer |-> [keys |-> p.keys, kind |-> p.kind, buckets |-> p.buckets,
                              tokens |-> tk]] : p \in PeerConfigs, tk \in TokenSets}
    /\ sessions = [st \in Stores |-> [u \in Users |-> {}]]
    /\ revoked = [st \in Stores |-> {}]
    /\ cookies = {}
    /\ verified = [st \in Stores |-> {}]
    /\ inflight = Idle
    /\ loggedOut = [st \in Stores |-> {}]
    /\ synced = {}
    /\ ticked = {}
    /\ ret = Ret("init", "", "")
    /\ ConcInit

NextWeb ==
    \/ Tick
    \/ \E st \in Minters, id \in IDsNow \ UsedIDs : New(st, "alice", id)
    \/ \E c \in cookies : Verify("peer", c)
    \/ \E s \in verified["peer"] : Revoke("peer", s)
    \/ \E present \in BOOLEAN, str \in CookieInputs : GetAuth("peer", present, str)
    \/ \E hdr \in AuthHeaders : GetRevocations("peer", hdr)

SpecWeb == InitWeb /\ [][NextWeb]_vars

---------------------------------------------------------------------------
(* Construction: NewStore and the configurations it is given *)

(* the type-specific part of a key entry: none, a key file that cannot be  *)
(* read, a public key or a private key                                     *)
Ed25519Configs == {"nil", "unreadable", "public", "private"}

KeyEntries == {[name |-> "k1", ed25519 |-> c] : c \in Ed25519Configs}

ConfiguredKeyLists ==
    {<<>>} \cup {<<e>> : e \in KeyEntries} \cup {<<a, b>> : a \in KeyEntries, b \in KeyEntries}

(* sync base URLs: none, a file URL, http and https in either case, one    *)
(* without a scheme, one that url.Parse refuses                            *)
SyncURLs ==
    { <<>>,
      <<"f", "i", "l", "e", ":", "/", "/", "/", "x">>,
      <<"h", "t", "t", "p", ":", "/", "/", "h">>,
      <<"h", "t", "t", "p", "s", ":", "/", "/", "h">>,
      <<"H", "T", "T", "P", ":", "/", "/", "h">>,
      <<"h", "t", "t", "p", "x", ":", "/", "/", "h">>,
      <<"h">>,
      <<":", "/", "/", "h">> }

NoSync == [baseURL |-> <<"-">>, tls |-> "no sync"]

SyncConfigs ==
    {NoSync} \cup {[baseURL |-> u, tls |-> "nil"] : u \in SyncURLs}
             \cup {[baseURL |-> <<"h", "t", "t", "p", ":", "/", "/", "h">>, tls |-> "unloadable"]}

(* bolt: not selected, a fresh file, a file whose buckets cannot be        *)
(* created, a file locked by another process                               *)
BoltConfigs == {"nil", "fresh", "corrupt", "locked"}

(* the registry handed to NewStore: none, an empty one, one that already   *)
(* holds the store's collectors                                            *)
Registries == {"nil", "empty", "registered"}

(* durations, in milliseconds *)
Second == 1000

DefaultGCInterval == 300000

DefaultSyncInterval == 10000

(* gc-interval and sync interval as configured: unset, negative, around    *)
(* one second, a minute                                                    *)
Intervals == {0, -1, Second - 1, Second, Second + 1, 60 * Second}

Configs ==
    {[keys |-> k, inMemory |-> m, bolt |-> b, sync |-> s, prom |-> p,
      gcInterval |-> d, syncInterval |-> d] :
        k \in ConfiguredKeyLists, m \in BOOLEAN, b \in BoltConfigs,
        s \in SyncConfigs, p \in Registries, d \in Intervals}

(* the intervals initBackend hands to runGC and to runSync *)
GCInterval(conf) ==
    IF conf.gcInterval <= Second THEN DefaultGCInterval ELSE conf.gcInterval

SyncInterval(conf) ==
    IF conf.syncInterval <= Second THEN DefaultSyncInterval ELSE conf.syncInterval

Lower(c) ==
    CASE c = "H" -> "h" [] c = "T" -> "t" [] c = "P" -> "p" [] c = "S" -> "s" [] OTHER -> c

IsLetter(c) == c \in {"f", "i", "l", "e", "h", "t", "p", "s", "x", "H", "T", "P", "S"}

ToLower(s) == [i \in DOMAIN s |-> Lower(s[i])]

(* the scheme url.Parse finds: the letters before the first colon *)
RECURSIVE GetScheme(_, _)
GetScheme(raw, i) ==
    IF i > Len(raw) THEN [scheme |-> <<>>, err |-> ""]
    ELSE IF IsLetter(raw[i]) THEN GetScheme(raw, i + 1)
    ELSE IF raw[i] = ":"
         THEN IF i = 1 THEN [scheme |-> <<>>, err |-> "missing protocol scheme"]
              ELSE [scheme |-> ToLower(SubSeq(raw, 1, i - 1)), err |-> ""]
    ELSE [scheme |-> <<>>, err |-> ""]

URLParse(raw) == GetScheme(raw, 1)

(* NewEd25519SignerVerifier for one entry of conf.Keys *)
LoadKey(entry) ==
    IF entry.ed25519 = "nil"
    THEN [err |-> "no valid type-specific config found", key |-> NoKey]
    ELSE IF entry.ed25519 = "unreadable"
    THEN [err |-> "failed to load Ed25519 key", key |-> NoKey]
    ELSE [err |-> "", key |-> Ed25519Key(entry.name, "m1", entry.ed25519 = "private")]

RECURSIVE initKeysLoop(_, _, _)
initKeysLoop(entries, i, keys) ==
    IF i > Len(entries)
    THEN IF Len(keys) < 1
         THEN [err |-> "at least one key must be configured", keys |-> keys]
         ELSE [err |-> "", keys |-> keys]
    ELSE LET k == LoadKey(entries[i])
         IN  IF k.err # "" THEN [err |-> k.err, keys |-> keys]
             ELSE initKeysLoop(entries, i + 1, Append(keys, k.key))

initKeys(conf) == initKeysLoop(conf.keys, 1, <<>>)

Backend(err, kind, buckets, gc, sync) ==
    [err |-> err, kind |-> kind, buckets |-> buckets, gc |-> gc, sync |-> sync]

(* the back-end initBackend ends with: in-memory if selected, replaced by  *)
(* bolt if that is selected too                                            *)
SelectBackend(conf) ==
    IF conf.bolt = "locked"
    THEN Backend("failed to acquire exclusive-lock for bolt-database", "none", FALSE, FALSE, FALSE)
    ELSE IF conf.bolt # "nil" THEN Backend("", "bolt", conf.bolt = "fresh", FALSE, FALSE)
    ELSE IF conf.inMemory THEN Backend("", "in-memory", TRUE, FALSE, FALSE)
    ELSE Backend("no valid backend configuration found", "none", FALSE, FALSE, FALSE)

(* initBackend that starts the loops before it has a back-end *)
initBackendLoopsFirst(conf) ==
    LET b == SelectBackend(conf)
    IN  Backend(b.err, b.kind, b.buckets, TRUE, conf.sync # NoSync)

initBackend(conf) ==
    LET u == URLParse(conf.sync.baseURL)
        b == SelectBackend(conf)
    IN  IF conf.sync # NoSync /\ u.err # ""
        THEN Backend(u.err, "none", FALSE, FALSE, FALSE)
        ELSE IF conf.sync # NoSync /\ u.scheme \notin {<<"h", "t", "t", "p">>, <<"h", "t", "t", "p", "s">>}
        THEN Backend("sync base-url is invalid", "none", FALSE, FALSE, FALSE)
        ELSE IF conf.sync # NoSync /\ conf.sync.tls = "unloadable"
        THEN Backend("failed to load TLS config", "none", FALSE, FALSE, FALSE)
        ELSE IF b.err # "" THEN b
        ELSE Backend("", b.kind, b.buckets, TRUE, conf.sync # NoSync)

(* what NewStore leaves behind: the store it built (its keys, its back-end *)
(* and the loops running on it) and whether it returned that store         *)
Built(err, keys, b, returned) ==
    [err |-> err, keys |-> keys, kind |-> b.kind, buckets |-> b.buckets,
     gc |-> b.gc, sync |-> b.sync, returned |-> returned]

NoBackend == Backend("", "none", FALSE, FALSE, FALSE)

NewStoreResult(conf) ==
    LET k == initKeys(conf)
        b == initBackend(conf)
    IN  IF k.err # "" THEN Built(k.err, <<>>, NoBackend, FALSE)
        ELSE IF b.err # "" THEN Built(b.err, k.keys, b, FALSE)
        ELSE IF conf.prom = "registered"
        THEN Built("duplicate metrics collector registration attempted", k.keys, b, FALSE)
        ELSE Built("", k.keys, b, TRUE)

(* NewStore(conf, prom, nil, nil) for the peer *)
NewStore(conf) ==
    /\ ret.op = "init"
    /\ LET r == NewStoreResult(conf)
       IN  /\ deploy' = [deploy EXCEPT !["peer"] =
                           [keys |-> r.keys, kind |-> r.kind, buckets |-> r.buckets,
                            gc |-> r.gc, sync |-> r.sync, returned |-> r.returned]]
           /\ ret' = [op |-> "NewStore", st |-> "peer", err |-> r.err, conf |-> conf,
                       gcInterval |-> IF r.gc THEN GCInterval(conf) ELSE 0,
                       syncInterval |-> IF r.sync THEN SyncInterval(conf) ELSE 0]
    /\ UNCHANGED <<now, sessions, revoked, cookies, verified, inflight, loggedOut, synced, ticked>>
    /\ UNCHANGED conc

InitNew ==
    /\ now = 0
    /\ deploy = [signer |-> SignerConfig,
                 peer |-> [keys |-> <<>>, kind |-> "none", buckets |-> FALSE,
                           gc |-> FALSE, sync |-> FALSE, returned |-> FALSE]]
    /\ sessions = [st \in Stores |-> [u \in Users |-> {}]]
    /\ revoked = [st \in Stores |-> {}]
    /\ cookies = {}
    /\ verified = [st \in Stores |-> {}]
    /\ inflight = Idle
    /\ loggedOut = [st \in Stores |-> {}]
    /\ synced = {}
    /\ ticked = {}
    /\ ret = Ret("init", "", "")
    /\ ConcInit

(* the caller uses the store it got; the loops run on the store they were  *)
(* started on                                                              *)
NextNew ==
    \/ /\ ret.op = "init"
       /\ \E conf \in Configs : NewStore(conf)
    \/ Tick
    \/ \E st \in Minters, id \in IDsNow \ UsedIDs :
          /\ st = "peer" => deploy.peer.returned
          /\ New(st, "alice", id)
    \/ /\ deploy.peer.returned
       /\ \E c \in cookies : Verify("peer", c)
    \/ /\ deploy.peer.returned
       /\ \E s \in verified["peer"] : Revoke("peer", s)
    \/ /\ deploy.peer.gc
       /\ CollectGarbage("peer")
    \/ /\ deploy.peer.sync
       /\ \E resp \in SyncResponses : SyncTick(resp)

SpecNew == InitNew /\ [][NextNew]_vars

---------------------------------------------------------------------------
(* Concurrent calls of the peer's back-end, statement by statement *)

Kind == deploy.peer.kind

(* the lock the first statement of each operation of InMemoryBackend takes *)
LockModeSharedGC(op) ==
    CASE op \in {"ListUser", "IsRevoked", "ListRevoked", "CollectGarbage"} -> "RLock"
      [] OTHER -> "Lock"

LockMode(op) ==
    CASE op = "Save" -> "Lock"
      [] op = "ListUser" -> "RLock"
      [] op = "Revoke" -> "Lock"
      [] op = "RevokeID" -> "Lock"
      [] op = "IsRevoked" -> "RLock"
      [] op = "ListRevoked" -> "RLock"
      [] op = "LoadRevocations" -> "Lock"
      [] op = "CollectGarbage" -> "Lock"

(* a lock that admits readers beside a writer *)
CanAcquireReadersAlways(kind, mode, m) ==
    IF mode = "Lock" THEN m.w = "" /\ (kind = "bolt" \/ m.r = {}) ELSE TRUE

(* sync.RWMutex: one writer or any number of readers. bolt: db.Update      *)
(* waits for the writer before it, db.View waits for nobody                *)
CanAcquire(kind, mode, m) ==
    IF mode = "Lock" THEN m.w = "" /\ (kind = "bolt" \/ m.r = {})
    ELSE kind = "bolt" \/ m.w = ""

Acquire(mode, m, g) == IF mode = "Lock" THEN [m EXCEPT !.w = g] ELSE [m EXCEPT !.r = @ \cup {g}]

Release(m, g) == [w |-> IF m.w = g THEN "" ELSE m.w, r |-> m.r \ {g}]

(* the session the handlers of the model work on *)
LockSession == Session([ts |-> 0, rnd |-> 1], "alice", Lifetime \div TicksPerSec)

(* what the handlers call: h1 any operation, h2 the ones of Verify and of  *)
(* logout                                                                  *)
HandlerCalls ==
    [h1 |-> {"Save", "ListUser", "Revoke", "RevokeID", "IsRevoked", "ListRevoked"},
     h2 |-> {"IsRevoked", "Revoke"}]

LockLists == {<<>>, <<LockSession>>}

LockResponses ==
    {Response("error", 0, NoPayload, NoSignature)}
    \cup {Response("http", 200, ListPayload(l), Ed25519Sign(SignerKeys[1], ListPayload(l))) :
            l \in LockLists}

(* the maps of InMemoryBackend, the committed pages of the bolt file *)
Shared == [S |-> sessions.peer, R |-> revoked.peer]

(* what the statements of g read and write: the maps themselves, or the    *)
(* pages of its bolt transaction                                           *)
Seen(g) == IF Kind = "bolt" THEN calls[g].tx ELSE Shared

(* a handler calls an operation of the back-end *)
Call(g, op) ==
    /\ calls[g].pc = "idle"
    /\ op = "Save" => SetExpiry(Lifetime) = LockSession.e
    /\ calls' = [calls EXCEPT ![g] = [IdleCall EXCEPT !.op = op, !.pc = "called", !.s = LockSession]]
    /\ UNCHANGED ret
    /\ UNCHANGED <<now, deploy, sessions, revoked, cookies, verified, inflight,
                   loggedOut, synced, ticked, mutex, loops>>

(* mutex.Lock(), mutex.RLock(), db.Update(), db.View() *)
Enter(g) ==
    /\ calls[g].pc = "called"
    /\ CanAcquire(Kind, LockMode(calls[g].op), mutex)
    /\ mutex' = Acquire(LockMode(calls[g].op), mutex, g)
    /\ calls' = [calls EXCEPT ![g].pc = "locked",
                              ![g].tx = IF Kind = "bolt" THEN Shared ELSE NoTx]
    /\ UNCHANGED ret
    /\ UNCHANGED <<now, deploy, sessions, revoked, cookies, verified, inflight,
                   loggedOut, synced, ticked, loops>>

(* the statements of g leave S and R behind and g goes on at pc *)
Write(g, S, R, pc, err) ==
    /\ calls' = [calls EXCEPT ![g].pc = pc, ![g].err = err,
                              ![g].tx = IF Kind = "bolt" THEN [S |-> S, R |-> R] ELSE NoTx]
    /\ sessions' = IF Kind = "bolt" THEN sessions ELSE [sessions EXCEPT !.peer = S]
    /\ revoked' = IF Kind = "bolt" THEN revoked ELSE [revoked EXCEPT !.peer = R]

(* the body of Save, ListUser, IsRevoked, ListRevoked, LoadRevocations and *)
(* CollectGarbage                                                          *)
Body(g) ==
    /\ calls[g].pc = "locked"
    /\ calls[g].op \notin {"Revoke", "RevokeID"}
    /\ LET c == calls[g]
           v == Seen(g)
           r == CASE c.op = "Save" ->
                       BackendSave("peer", v.S, v.R, Stored(c.s.id, c.s.u, c.s.e, TestAgent))
                  [] c.op = "LoadRevocations" -> BackendLoadRevocations("peer", v.S, v.R, c.list)
                  [] c.op = "CollectGarbage" -> BackendCollectGarbage("peer", v.S, v.R)
                  [] c.op = "ListUser" -> Result(BackendListUser("peer", v.S, c.s.u).err, v.S, v.R, 0)
                  [] c.op = "IsRevoked" -> Result(BackendIsRevoked("peer", v.R, c.s).err, v.S, v.R, 0)
                  [] c.op = "ListRevoked" -> Result(BackendListRevoked("peer", v.R).err, v.S, v.R, 0)
       IN  Write(g, r.S, r.R, "done", r.err)
    /\ UNCHANGED ret
    /\ UNCHANGED <<now, deploy, cookies, verified, inflight, loggedOut, synced, ticked,
                   mutex, loops>>

(* Revoke and RevokeID: the entry leaves the bucket of its user ... *)
RevokeDelete(g) ==
    /\ calls[g].pc = "locked"
    /\ calls[g].op \in {"Revoke", "RevokeID"}
    /\ LET c == calls[g]
           v == Seen(g)
           found == Has(v.S[c.s.u], c.s.id)
           S == [v.S EXCEPT ![c.s.u] = Without(@, c.s.id)]
       IN  IF c.op = "RevokeID" /\ ~found
           THEN /\ calls' = [calls EXCEPT ![g].pc = "done"]
                /\ UNCHANGED <<sessions, revoked>>
           ELSE /\ calls' = [calls EXCEPT ![g].pc = "deleted", ![g].found = found,
                                         ![g].listed = Has(v.R, c.s.id),
                                         ![g].tx = IF Kind = "bolt" THEN [S |-> S, R |-> v.R]
                                                   ELSE NoTx]
                /\ sessions' = IF Kind = "bolt" THEN sessions ELSE [sessions EXCEPT !.peer = S]
                /\ UNCHANGED revoked
    /\ UNCHANGED ret
    /\ UNCHANGED <<now, deploy, cookies, verified, inflight, loggedOut, synced, ticked,
                   mutex, loops>>

(* ... and enters the revoked set *)
RevokePut(g) ==
    /\ calls[g].pc = "deleted"
    /\ LET c == calls[g]
           v == Seen(g)
       IN  Write(g, v.S, Without(v.R, c.s.id) \cup {Session(c.s.id, c.s.u, c.s.e)}, "done", "")
    /\ UNCHANGED ret
    /\ UNCHANGED <<now, deploy, cookies, verified, inflight, loggedOut, synced, ticked,
                   mutex, loops>>

(* a loop that ends when a tick has failed *)
LoopNextStopsOnError(err) == IF err # "" THEN [IdleCall EXCEPT !.pc = "exited"] ELSE IdleCall

(* what runGC and runSync do with the error of a tick: they log it and go  *)
(* back to wait for the next tick                                          *)
LoopNext(err) == IdleCall

(* the deferred Unlock or RUnlock, the commit of the bolt transaction *)
Return(g) ==
    /\ calls[g].pc = "done"
    /\ mutex' = Release(mutex, g)
    /\ LET c == calls[g]
           commit == Kind = "bolt" /\ LockMode(c.op) = "Lock" /\ c.err = ""
       IN  /\ sessions' = IF commit THEN [sessions EXCEPT !.peer = c.tx.S] ELSE sessions
           /\ revoked' = IF commit THEN [revoked EXCEPT !.peer = c.tx.R] ELSE revoked
    /\ calls' = [calls EXCEPT ![g] = LoopNext(calls[g].err)]
    /\ UNCHANGED <<now, deploy, cookies, verified, inflight, loggedOut, synced, ticked, loops, ret>>

(* a time.Ticker puts a tick into its channel, which holds one *)
TickerFires(l) ==
    /\ loops[l] = 0
    /\ loops' = [loops EXCEPT ![l] = 1]
    /\ UNCHANGED ret
    /\ UNCHANGED <<now, deploy, sessions, revoked, cookies, verified, inflight,
                   loggedOut, synced, ticked, mutex, calls>>

(* runGC takes a tick and calls CollectGarbage; it returns when the        *)
(* channel is closed, which a time.Ticker never does to its channel        *)
GCRun(g) ==
    /\ calls[g].pc = "idle"
    /\ loops[g] # 0
    /\ loops' = [loops EXCEPT ![g] = IF @ < 0 THEN @ ELSE 0]
    /\ calls' = [calls EXCEPT ![g] = IF loops[g] < 0 THEN [IdleCall EXCEPT !.pc = "exited"]
                                     ELSE [IdleCall EXCEPT !.op = "CollectGarbage", !.pc = "called"]]
    /\ UNCHANGED ret
    /\ UNCHANGED <<now, deploy, sessions, revoked, cookies, verified, inflight,
                   loggedOut, synced, ticked, mutex>>

(* a tick that takes the lock of the back-end before it sends its request *)
ClientDoLocked(m, g) == [m EXCEPT !.w = g]

(* client.Do: the request is sent with the lock of the back-end as it was *)
ClientDo(m, g) == m

(* runSync takes a tick and syncRevocations sends the request *)
SyncSend(g) ==
    /\ calls[g].pc = "idle"
    /\ loops[g] # 0
    /\ loops' = [loops EXCEPT ![g] = IF @ < 0 THEN @ ELSE 0]
    /\ calls' = [calls EXCEPT ![g] = IF loops[g] < 0 THEN [IdleCall EXCEPT !.pc = "exited"]
                                     ELSE [IdleCall EXCEPT !.op = "syncRevocations",
                                                           !.pc = "requesting"]]
    /\ mutex' = IF loops[g] < 0 THEN mutex ELSE ClientDo(mutex, g)
    /\ UNCHANGED ret
    /\ UNCHANGED <<now, deploy, sessions, revoked, cookies, verified, inflight,
                   loggedOut, synced, ticked>>

(* the checks of syncRevocations between the response and LoadRevocations *)
SyncResponseOK(st, resp) ==
    /\ resp.kind # "error"
    /\ resp.status = 200
    /\ DecodesAsSigned(resp)
    /\ KeysAccept(Keys(st), resp.revoked, resp.signature)
    /\ ParsesAsList(resp.revoked)

(* the response arrives: syncRevocations gives up or calls LoadRevocations *)
SyncReceive(g, resp) ==
    /\ calls[g].pc = "requesting"
    /\ IF SyncResponseOK("peer", resp)
       THEN /\ calls' = [calls EXCEPT ![g] = [IdleCall EXCEPT !.op = "LoadRevocations",
                                                 !.pc = "called", !.list = resp.revoked.items]]
            /\ UNCHANGED ret
       ELSE /\ calls' = [calls EXCEPT ![g] = LoopNext("failed")]
            /\ UNCHANGED ret
    /\ UNCHANGED <<now, deploy, sessions, revoked, cookies, verified, inflight,
                   loggedOut, synced, ticked, mutex, loops>>

LockConfigs ==
    {[keys |-> <<Ed25519Key("k1", "m1", TRUE)>>, kind |-> k, buckets |-> TRUE] :
        k \in {"in-memory", "bolt"}}

InitLock ==
    /\ now = 0
    /\ deploy \in {[signer |-> SignerConfig, peer |-> p] : p \in LockConfigs}
    /\ sessions = [st \in Stores |-> [u \in Users |-> {}]]
    /\ revoked = [st \in Stores |-> {}]
    /\ cookies = {}
    /\ verified = [st \in Stores |-> {}]
    /\ inflight = Idle
    /\ loggedOut = [st \in Stores |-> {}]
    /\ synced = {}
    /\ ticked = {}
    /\ ret = Ret("init", "", "")
    /\ ConcInit

NextLock ==
    \/ Tick
    \/ \E g \in Handlers : \E op \in HandlerCalls[g] : Call(g, op)
    \/ \E g \in Goroutines : Enter(g)
    \/ \E g \in Goroutines : Body(g)
    \/ \E g \in Goroutines : RevokeDelete(g)
    \/ \E g \in Goroutines : RevokePut(g)
    \/ \E g \in Goroutines : Return(g)
    \/ \E l \in GCLoops \cup SyncLoops : TickerFires(l)
    \/ \E g \in GCLoops : GCRun(g)
    \/ \E g \in SyncLoops : SyncSend(g)
    \/ \E g \in SyncLoops, resp \in LockResponses : SyncReceive(g, resp)

SpecLock == InitLock /\ [][NextLock]_vars

---------------------------------------------------------------------------
(* The cursor loop of the bolt GC. A bucket is the sequence of its entries *)
(* in key order; a cursor is a position in it, Len + 1 past the last key.  *)

MaxBucket == 4

CursorFirst(b) == 1

CursorNext(b, i) == i + 1

(* Cursor.Delete: the entry under the cursor goes, the ones behind it move *)
(* up and the cursor stays where it is                                     *)
CursorDelete(b, i) == SubSeq(b, 1, i - 1) \o SubSeq(b, i + 1, Len(b))

(* Cursor.Seek: the first entry whose key is not below the key sought *)
RECURSIVE CursorSeek(_, _, _)
CursorSeek(b, key, i) ==
    IF i > Len(b) THEN i
    ELSE IF ~IDLess(b[i].id, key) THEN i
    ELSE CursorSeek(b, key, i + 1)

(* a loop that moves on with Next after a Delete *)
AfterDeleteNext(b, key, i) == CursorNext(b, i)

(* after a Delete the loop seeks the deleted key *)
AfterDelete(b, key, i) == CursorSeek(b, key, 1)

(* deleteExpired from position i on: the bucket it leaves, its count, the  *)
(* keys it has looked at, and whether it came to the end within fuel turns *)
RECURSIVE DeleteExpiredLoop(_, _, _, _, _)
DeleteExpiredLoop(b, i, cnt, seen, fuel) ==
    IF i > Len(b) THEN [bucket |-> b, cnt |-> cnt, seen |-> seen, ended |-> TRUE]
    ELSE IF fuel = 0 THEN [bucket |-> b, cnt |-> cnt, seen |-> seen, ended |-> FALSE]
    ELSE IF IsExpired(b[i].e)
    THEN DeleteExpiredLoop(CursorDelete(b, i), AfterDelete(CursorDelete(b, i), b[i].id, i),
                           cnt + 1, Append(seen, b[i].id), fuel - 1)
    ELSE DeleteExpiredLoop(b, CursorNext(b, i), cnt, Append(seen, b[i].id), fuel - 1)

DeleteExpired(b) == DeleteExpiredLoop(b, CursorFirst(b), 0, <<>>, 2 * Len(b) + 1)

(* the buckets of the model: any of the keys 1..MaxBucket, each with an    *)
(* expiry before, at or after the seconds the clock runs through           *)
BucketKeys == {[ts |-> k, rnd |-> 0] : k \in 1..MaxBucket}

Buckets ==
    UNION {[K -> {0, 1, 2}] : K \in SUBSET BucketKeys}

BucketOf(f) == InOrder({Session(k, "alice", f[k]) : k \in DOMAIN f})

(* deleteExpired on the cursor of a bucket, inside the transaction of      *)
(* CollectGarbage                                                          *)
RunDeleteExpired(f) ==
    /\ ret.op \in {"init", "Tick"}
    /\ ret' = [op |-> "deleteExpired", st |-> "peer", err |-> "",
               in |-> BucketOf(f), out |-> DeleteExpired(BucketOf(f))]
    /\ UNCHANGED <<now, deploy, sessions, revoked, cookies, verified, inflight,
                   loggedOut, synced, ticked>>
    /\ UNCHANGED conc

InitCursor == Init /\ deploy.peer.kind = "bolt" /\ deploy.peer.buckets

NextCursor ==
    \/ /\ ret.op \in {"init", "Tick"}
       /\ Tick
    \/ \E f \in Buckets : RunDeleteExpired(f)

SpecCursor == InitCursor /\ [][NextCursor]_vars

---------------------------------------------------------------------------
(* SpecBackends: an in-memory back-end and a bolt back-end, both started   *)
(* empty, are given the same operations with the same arguments at the     *)
(* same times; ret keeps what each of them returned.                       *)

MemStore == "signer"

BoltStore == "peer"

BackendUsers == {"", "alice"}

BackendSessions ==
    {Session([ts |-> k, rnd |-> 0], u, k - 1) : k \in 1..2, u \in BackendUsers}

BackendLists ==
    {<<>>} \cup {<<x>> : x \in BackendSessions}
           \cup {<<x, y>> : x \in {s \in BackendSessions : s.u = "alice"}, y \in BackendSessions}

BackendOps ==
    {"Save", "Revoke", "RevokeID", "LoadRevocations", "CollectGarbage",
     "IsRevoked", "ListUser", "ListRevoked"}

Outcome(r, out) == [err |-> r.err, S |-> r.S, R |-> r.R, cnt |-> r.cnt, out |-> out]

Answer(st, err, out) ==
    [err |-> err, S |-> sessions[st], R |-> revoked[st], cnt |-> 0, out |-> out]

(* one call of the back-end of st *)
BackendCall(st, op, s, list) ==
    LET S == sessions[st]
        R == revoked[st]
    IN  CASE op = "Save" ->
               Outcome(BackendSave(st, S, R, Stored(s.id, s.u, s.e, TestAgent)), {})
          [] op = "Revoke" -> Outcome(BackendRevoke(st, S, R, s), {})
          [] op = "RevokeID" -> Outcome(BackendRevokeID(st, S, R, s.u, s.id), {})
          [] op = "LoadRevocations" -> Outcome(BackendLoadRevocations(st, S, R, list), {})
          [] op = "CollectGarbage" -> Outcome(BackendCollectGarbage(st, S, R), {})
          [] op = "IsRevoked" ->
               LET r == BackendIsRevoked(st, R, s) IN Answer(st, r.err, {r.revoked})
          [] op = "ListUser" ->
               LET r == BackendListUser(st, S, s.u) IN Answer(st, r.err, r.list)
          [] op = "ListRevoked" ->
               LET r == BackendListRevoked(st, R)
               IN  Answer(st, r.err, {r.list[i] : i \in DOMAIN r.list})

(* the same call on both back-ends *)
Both(op, s, list) ==
    LET m == BackendCall(MemStore, op, s, list)
        b == BackendCall(BoltStore, op, s, list)
    IN  /\ sessions' = [sessions EXCEPT ![MemStore] = m.S, ![BoltStore] = b.S]
        /\ revoked' = [revoked EXCEPT ![MemStore] = m.R, ![BoltStore] = b.R]
        /\ ret' = [op |-> op, st |-> "", err |-> m.err, arg |-> s,
                   mem |-> [err |-> m.err, cnt |-> m.cnt, out |-> m.out],
                   bolt |-> [err |-> b.err, cnt |-> b.cnt, out |-> b.out]]
        /\ UNCHANGED <<now, deploy, cookies, verified, inflight, loggedOut, synced, ticked>>
        /\ UNCHANGED conc

InitBackends ==
    /\ now = 0
    /\ deploy = [signer |-> [keys |-> SignerKeys, kind |-> "in-memory", buckets |-> TRUE],
                 peer |-> [keys |-> SignerKeys, kind |-> "bolt", buckets |-> TRUE]]
    /\ sessions = [st \in Stores |-> [u \in BackendUsers |-> {}]]
    /\ revoked = [st \in Stores |-> {}]
    /\ cookies = {}
    /\ verified = [st \in Stores |-> {}]
    /\ inflight = Idle
    /\ loggedOut = [st \in Stores |-> {}]
    /\ synced = {}
    /\ ticked = {}
    /\ ret = Ret("init", "", "")
    /\ ConcInit

NextBackends ==
    \/ Tick
    \/ \E s \in BackendSessions :
           \E op \in {"Save", "Revoke", "RevokeID", "IsRevoked", "ListUser"} : Both(op, s, <<>>)
    \/ \E list \in BackendLists : Both("LoadRevocations", CHOOSE s \in BackendSessions : TRUE, list)
    \/ \E op \in {"CollectGarbage", "ListRevoked"} :
           Both(op, CHOOSE s \in BackendSessions : TRUE, <<>>)

SpecBackends == InitBackends /\ [][NextBackends]_vars

(* SpecLoops: the GC loop and the sync loop of a verify-only peer on each  *)
(* back-end, the bolt file without its buckets among them, with tickers    *)
(* that keep firing and loops that keep running                            *)
LoopConfigs ==
    {[keys |-> <<Ed25519Key("k1", "m1", FALSE)>>, kind |-> "in-memory", buckets |-> TRUE],
     [keys |-> <<Ed25519Key("k1", "m1", FALSE)>>, kind |-> "bolt", buckets |-> TRUE],
     [keys |-> <<Ed25519Key("k1", "m1", FALSE)>>, kind |-> "bolt", buckets |-> FALSE]}

InitLoops ==
    /\ now = 0
    /\ deploy \in {[signer |-> SignerConfig, peer |-> p] : p \in LoopConfigs}
    /\ sessions = [st \in Stores |-> [u \in Users |-> {}]]
    /\ revoked = [st \in Stores |-> {}]
    /\ cookies = {}
    /\ verified = [st \in Stores |-> {}]
    /\ inflight = Idle
    /\ loggedOut = [st \in Stores |-> {}]
    /\ synced = {}
    /\ ticked = {}
    /\ ret = Ret("init", "", "")
    /\ ConcInit

NextLoops ==
    \/ Tick
    \/ \E l \in GCLoops \cup SyncLoops : TickerFires(l)
    \/ \E g \in GCLoops : GCRun(g)
    \/ \E g \in SyncLoops : SyncSend(g)
    \/ \E g \in SyncLoops, resp \in LockResponses : SyncReceive(g, resp)
    \/ \E g \in GCLoops \cup SyncLoops : Enter(g)
    \/ \E g \in GCLoops \cup SyncLoops : Body(g)
    \/ \E g \in GCLoops \cup SyncLoops : Return(g)

SpecLoops ==
    /\ InitLoops
    /\ [][NextLoops]_vars
    /\ \A l \in {"gc", "sync"} : WF_vars(TickerFires(l))
    /\ WF_vars(GCRun("gc"))
    /\ WF_vars(SyncSend("sync"))
    /\ \A g \in {"gc", "sync"} : WF_vars(Return(g))

---------------------------------------------------------------------------
(* Properties *)

InBucket(st, id) == \E u \in Users : Has(sessions[st][u], id)

(* C1 as the specification states it: once Store.Revoke(s) has returned    *)
(* nil on a store, every Verify on that store of a cookie carrying the     *)
(* SID of s is rejected as revoked                                         *)
RevokedAlwaysRevoked ==
    \A st \in Stores : \A s \in loggedOut[st] : \A c \in cookies :
        c.payload.id = s.id => StoreVerify(st, c).err = "cookie is revoked"

(* C1: once Store.Revoke(s) has returned nil on a store, every Verify on   *)
(* that store of a cookie of session s is rejected, as revoked while s     *)
(* has not expired and as expired from then on, whatever New, Verify,      *)
(* load-revocations and GC have done in between                            *)
RevokedStaysRejected ==
    \A st \in Stores : \A s \in loggedOut[st] : \A c \in cookies :
        SessionOf(c) = s =>
            StoreVerify(st, c).err =
                IF IsExpired(s.e) THEN "cookie is expired" ELSE "cookie is revoked"

(* a Verify of the only cookie, revoked before on the peer and not yet     *)
(* expired, was rejected as revoked                                        *)
RevokedThenRejected ==
    /\ ret = Ret("Verify", "peer", "cookie is revoked")
    /\ Cardinality(cookies) = 1
    /\ \A c \in cookies : SessionOf(c) \in loggedOut["peer"] /\ ~IsExpired(c.payload.e)

(* the key that signed cookie c, by material and context, is in the key set of st *)
SigningKeyHeld(st, c) ==
    \E i \in DOMAIN Keys(st) :
        Keys(st)[i].mat = c.signature.mat /\ Keys(st)[i].ctx = c.signature.ctx

(* C2 as the specification states it: Verify of a minted cookie succeeds   *)
(* on a store iff the store holds the signing key with its context, its    *)
(* back-end does not list the SID as revoked and the session has not       *)
(* expired                                                                 *)
VerifyIffNotListed ==
    \A st \in Stores : \A c \in cookies :
        (StoreVerify(st, c).err = "")
            <=> /\ SigningKeyHeld(st, c)
                /\ ~Has(revoked[st], c.payload.id)
                /\ ~IsExpired(c.payload.e)

(* C2: Verify of a minted cookie succeeds on a store iff the store holds   *)
(* the signing key with its context, the is-revoked query of its back-end  *)
(* answers, and answers no, and the session has not expired                *)
VerifyIffAnsweredNo ==
    \A st \in Stores : \A c \in cookies :
        (StoreVerify(st, c).err = "")
            <=> /\ SigningKeyHeld(st, c)
                /\ BackendIsRevoked(st, revoked[st], SessionOf(c)) = [err |-> "", revoked |-> FALSE]
                /\ ~IsExpired(c.payload.e)

(* the peer accepted a cookie of the signer with the second of its keys *)
VerifiedBySecondKey ==
    /\ ret = Ret("Verify", "peer", "")
    /\ Len(Keys("peer")) = 2
    /\ \E c \in cookies : ~SigningKeyHeld("peer", [c EXCEPT !.signature.mat = "m0"])

(* C3: in every reachable state no SID is in a user bucket and in the      *)
(* revocation set of the same store                                        *)
OneStatePerSID ==
    \A st \in Stores : \A id \in UsedIDs : ~(InBucket(st, id) /\ Has(revoked[st], id))

(* C4 as the specification states it: for an unexpired cookie whose        *)
(* session the signer has revoked, Verify on the peer succeeds until the   *)
(* peer completes its next successful sync tick and is rejected as revoked *)
(* from then on                                                            *)
RevokedAfterNextTick ==
    \A c \in cookies :
        (~IsExpired(c.payload.e) /\ c.payload.id \in RevokedOn("signer")) =>
            StoreVerify("peer", c).err =
                IF c.payload.id \in ticked THEN "cookie is revoked" ELSE ""

(* C4: for an unexpired cookie whose session the signer has revoked,       *)
(* Verify on the peer succeeds as long as the peer has neither revoked     *)
(* the session itself nor completed a successful sync tick that the        *)
(* signer answered after the revoke; once it has completed such a tick,    *)
(* Verify on the peer is rejected as revoked                               *)
RevokedAfterCoveringTick ==
    \A c \in cookies :
        (~IsExpired(c.payload.e) /\ c.payload.id \in RevokedOn("signer")) =>
            /\ (c.payload.id \notin synced /\ c.payload.id \notin RevokedOn("peer"))
                    => StoreVerify("peer", c).err = ""
            /\ c.payload.id \in synced => StoreVerify("peer", c).err = "cookie is revoked"

(* the peer, which never revoked anything itself, rejected a cookie as     *)
(* revoked after a sync tick that covered the signer's revoke               *)
RejectedAfterSync ==
    /\ ret = Ret("Verify", "peer", "cookie is revoked")
    /\ loggedOut["peer"] = {}
    /\ synced # {}

StateOf(st, id) ==
    IF InBucket(st, id) THEN "active"
    ELSE IF Has(revoked[st], id) THEN "revoked"
    ELSE "absent"

(* C5: no step moves a session from revoked back to active, or from        *)
(* absent, after it had been revoked, back to revoked or active            *)
MonotonicState ==
    [][\A st \in Stores : \A id \in UsedIDs :
          /\ StateOf(st, id) = "revoked" => StateOf(st, id)' # "active"
          /\ (StateOf(st, id) = "absent" /\ id \in RevokedOn(st))
                 => StateOf(st, id)' = "absent"]_vars

(* the checks of Store.verify in the order the specification gives them,   *)
(* each with the error it reports                                          *)
VerifyChecks(st, str) ==
    << <<FromString(str) # "", "malformed">>,
       <<\A i \in DOMAIN Keys(st) : ~Ed25519Verify(Keys(st)[i], str.payload, str.signature),
         "cookie signature is not valid">>,
       <<str.payload.t # "session", "unable to decode cookie">>,
       <<IsExpired(str.payload.e), "cookie is expired">>,
       <<BackendIsRevoked(st, revoked[st], SessionOf(str)).err # "",
         "failed to check for cookie revocation">>,
       <<Has(revoked[st], str.payload.id), "cookie is revoked">> >>

(* C6: Verify reports the error of the first failing check in the order    *)
(* decode, signature, parse, expiry, revocation lookup; it succeeds only   *)
(* when the is-revoked query answered no without error, and a failing      *)
(* query is an error                                                       *)
VerifyInOrder ==
    \A str \in CookieInputs :
        LET chk     == VerifyChecks("peer", str)
            failing == {i \in DOMAIN chk : chk[i][1]}
            first   == CHOOSE i \in failing : \A j \in failing : i <= j
            r       == StoreVerify("peer", str)
        IN  /\ r.err = IF failing = {} THEN "" ELSE chk[first][2]
            /\ r.err = "" =>
                  BackendIsRevoked("peer", revoked["peer"], r.val) = [err |-> "", revoked |-> FALSE]
            /\ (r.err = "" /\ str \in cookies) => r.val = SessionOf(str)

(* every cookie handed out is expired and revoked on the peer, and the     *)
(* last Verify on the peer said expired                                    *)
ExpiredBeforeRevoked ==
    /\ ret = Ret("Verify", "peer", "cookie is expired")
    /\ cookies # {}
    /\ \A c \in cookies : IsExpired(c.payload.e) /\ Has(revoked["peer"], c.payload.id)

(* the steps a sync response has to pass before LoadRevocations *)
PassesSyncSteps(st, resp) ==
    /\ resp.kind = "http"
    /\ resp.status = 200
    /\ resp.revoked.t \in {"list", "null"}
    /\ \E i \in DOMAIN Keys(st) : Ed25519Verify(Keys(st)[i], resp.revoked, resp.signature)

(* C7: a sync tick calls LoadRevocations only for a response with status   *)
(* 200 that decodes, whose signature over the revoked field one of the     *)
(* keys accepts and whose array parses; any other tick fails and leaves    *)
(* the revocation set as it was                                            *)
SyncLoadsOnlyVerified ==
    \A resp \in UpstreamResponses :
        LET r == SyncRevocations("peer", resp)
        IN  /\ r.loaded <=> PassesSyncSteps("peer", resp)
            /\ ~PassesSyncSteps("peer", resp) => (~r.ok /\ r.R = revoked["peer"] /\ r.cnt = 0)

(* a sync tick failed on a peer with an intact back-end, so before         *)
(* LoadRevocations, while the upstream had sessions to list                *)
SyncTickDropped ==
    /\ ret = Ret("syncRevocations", "peer", "failed")
    /\ ~Corrupt("peer")
    /\ cookies # {}

(* C8: a successful New has saved the session of the cookie it returns in  *)
(* the active set; a failed New returns no cookie and leaves the stored    *)
(* sessions and revocations as they were                                   *)
MintSavesFirst ==
    [][ret'.op = "New" =>
          IF ret'.err = ""
          THEN /\ sessions' # sessions
               /\ \A c \in cookies' \ cookies :
                     Has(sessions'[ret'.st][c.payload.u], c.payload.id)
          ELSE cookies' = cookies /\ sessions' = sessions /\ revoked' = revoked]_vars

(* New failed in Save, on an identifier the user's bucket already holds *)
MintCollided == ret.op = "New" /\ ret.err = "session already exists"

(* C9: New on a store none of whose keys can sign fails with "no signing   *)
(* key loaded", hands out no cookie and leaves the back-end as it was      *)
MintNeedsSigner ==
    [][(ret'.op = "New" /\ \A i \in DOMAIN Keys(ret'.st) : ~Keys(ret'.st)[i].priv) =>
          /\ ret'.err = "no signing key loaded"
          /\ cookies' = cookies
          /\ sessions' = sessions
          /\ revoked' = revoked]_vars

(* New was called on the verify-only peer *)
MintOnVerifyOnly ==
    /\ ret = Ret("New", "peer", "no signing key loaded")
    /\ \A i \in DOMAIN Keys("peer") : ~Keys("peer")[i].priv

(* the sessions New can pass to Save in this state *)
SaveInputs ==
    {Stored(id, u, SetExpiry(Lifetime), TestAgent) : id \in UsedIDs \cup IDsNow, u \in Users}

LoggedIn(st) == {s.u : s \in verified[st]}

(* C11 as the specification states it: after RevokeID(u, id) has returned  *)
(* success, id is not in the bucket of u and is in the revoked set         *)
RevokeIDAlwaysRevokes ==
    \A u \in LoggedIn("peer") : \A id \in RequestIDs :
        LET r == BackendRevokeID("peer", sessions["peer"], revoked["peer"], u, id)
        IN  r.err = "" => (~Has(r.S[u], id) /\ Has(r.R, id))

(* C11: RevokeID(u, id) on an id that the bucket of u holds does what      *)
(* Revoke of that record does: the id leaves the bucket and the revoked    *)
(* set holds it once, with the user and expiry of the active record; on    *)
(* any other id it returns success and changes nothing. Revoke(s) removes  *)
(* s.id from the bucket of s.u and puts s into the revoked set, leaving    *)
(* every other entry as it was                                             *)
RevokeIDLikeRevoke ==
    LET S == sessions["peer"]
        R == revoked["peer"]
    IN  /\ \A u \in LoggedIn("peer") : \A id \in RequestIDs :
              LET r == BackendRevokeID("peer", S, R, u, id)
              IN  r.err = "" =>
                    IF Has(S[u], id)
                    THEN LET x  == Get(S[u], id)
                             rv == BackendRevoke("peer", S, R, Session(id, u, x.e))
                         IN  /\ r.S = rv.S /\ r.R = rv.R
                             /\ ~Has(r.S[u], id)
                             /\ {y \in r.R : y.id = id} = {Session(id, x.u, x.e)}
                    ELSE r.S = S /\ r.R = R
        /\ \A s \in verified["peer"] :
              LET rv == BackendRevoke("peer", S, R, s)
              IN  rv.err = "" =>
                    /\ rv.S = [u \in Users |-> IF u = s.u THEN Without(S[u], s.id) ELSE S[u]]
                    /\ {y \in rv.R : y.id = s.id} = {s}
                    /\ Without(rv.R, s.id) = Without(R, s.id)

(* RevokeID has moved an unexpired session of the signing peer from its    *)
(* bucket to the revoked set: no Revoke was called, a sync tick leaves     *)
(* the bucket alone and GC the unexpired                                   *)
RevokeIDMoved ==
    /\ ret = Ret("RevokeID", "peer", "")
    /\ Signer("peer") # NoKey
    /\ loggedOut["peer"] = {}
    /\ \E c \in cookies :
          /\ ~IsExpired(c.payload.e)
          /\ SessionOf(c) \in revoked["peer"]
          /\ ~InBucket("peer", c.payload.id)

(* C12: in every reachable state, with or without a GC pass since the      *)
(* expiry, ListUser returns no expired session and ListRevoked no expired  *)
(* entry                                                                   *)
ListsSkipExpired ==
    /\ \A u \in Users :
          \A x \in BackendListUser("peer", sessions["peer"], u).list : ~IsExpired(x.e)
    /\ LET l == StoreListRevoked("peer").revoked.items
        IN  \A i \in DOMAIN l : ~IsExpired(l[i].e)

(* ListRevoked was called while the revoked set and a bucket of the peer   *)
(* still held expired entries                                              *)
ListedBeforeGC ==
    /\ ret = Ret("ListRevoked", "peer", "")
    /\ \E x \in revoked["peer"] : IsExpired(x.e)
    /\ \E u \in Users : \E x \in sessions["peer"][u] : IsExpired(x.e)

RECURSIVE SumOver(_, _)
SumOver(f, set) ==
    IF set = {} THEN 0
    ELSE LET a == CHOOSE x \in set : TRUE IN f[a] + SumOver(f, set \ {a})

(* C13: a GC pass deletes every expired entry of the buckets and of the    *)
(* revoked set and no other entry, and returns the number of entries it    *)
(* deleted from the buckets; with nothing expired it returns 0 and leaves  *)
(* the store as it was                                                     *)
GCDeletesExpired ==
    [][ret'.op = "CollectGarbage" =>
          LET st   == ret'.st
              S    == sessions[st]
              R    == revoked[st]
              gone == [u \in Users |-> {x \in S[u] : IsExpired(x.e)}]
              r    == BackendCollectGarbage(st, S, R)
          IN  /\ sessions'[st] = [u \in Users |-> S[u] \ gone[u]]
              /\ revoked'[st] = R \ {x \in R : IsExpired(x.e)}
              /\ r.cnt = SumOver([u \in Users |-> Cardinality(gone[u])], Users)
              /\ ((\A u \in Users : gone[u] = {}) /\ (\A x \in R : ~IsExpired(x.e)))
                    => (r.cnt = 0 /\ sessions' = sessions /\ revoked' = revoked)]_vars

(* a GC pass on the peer has deleted an expired revoked entry and kept an  *)
(* unexpired active one                                                    *)
GCCollected ==
    /\ ret = Ret("CollectGarbage", "peer", "")
    /\ \E s \in loggedOut["peer"] : IsExpired(s.e) /\ ~Has(revoked["peer"], s.id)
    /\ \E u \in Users : sessions["peer"][u] # {}


(* lists a back-end may be asked to load: up to MaxList entries, each the   *)
(* session of a cookie or that session with another expiry, so that a SID   *)
(* may occur more than once, with equal or with different data              *)
MaxList == 2

LoadEntries ==
    {SessionOf(c) : c \in cookies}
    \cup {Session(c.payload.id, c.payload.u, c.payload.e + 1) : c \in cookies}

LoadLists == UNION {[1..n -> LoadEntries] : n \in 0..MaxList}

(* the positions of list whose SID is neither in R nor earlier in list *)
NewPositions(R, list) ==
    {i \in 1..Len(list) : ~Has(R, list[i].id) /\ \A j \in 1..(i - 1) : list[j].id # list[i].id}

(* C14: a LoadRevocations(L) that succeeds inserts exactly the entries of L *)
(* whose SID is not yet in the revoked set (the first one of a repeated     *)
(* SID), touches nothing else and returns how many it inserted; a second    *)
(* LoadRevocations(L) directly afterwards returns 0 and changes nothing;    *)
(* one that fails changes nothing                                           *)
LoadInsertsNewOnce ==
    \A L \in LoadLists :
        LET S  == sessions["peer"]
            R  == revoked["peer"]
            r  == BackendLoadRevocations("peer", S, R, L)
            r2 == BackendLoadRevocations("peer", r.S, r.R, L)
        IN  /\ r.S = S
            /\ r.err # "" => r.R = R
            /\ r.err = "" =>
                  /\ r.R = R \cup {L[i] : i \in NewPositions(R, L)}
                  /\ r.cnt = Cardinality(NewPositions(R, L))
                  /\ r2.err = "" /\ r2.cnt = 0 /\ r2.R = r.R /\ r2.S = r.S

(* a sync of the verify-only peer has loaded the session of one cookie and  *)
(* not that of the other, so that the lists hold known SIDs, new ones and   *)
(* repeated ones, and some full list has exactly one entry to insert        *)
LoadedOneOfTwo ==
    /\ ret = Ret("syncRevocations", "peer", "")
    /\ Signer("peer") = NoKey
    /\ \E c \in cookies : SessionOf(c) \in revoked["peer"]
    /\ \E c \in cookies : ~Has(revoked["peer"], c.payload.id)
    /\ \E L \in LoadLists :
          /\ Cardinality(NewPositions(revoked["peer"], L)) = 1
          /\ Len(L) = MaxList

HoldsExpired(st) ==
    \/ \E u \in Users : \E x \in sessions[st][u] : IsExpired(x.e)
    \/ \E x \in revoked[st] : IsExpired(x.e)

(* C15: with the ticker of runGC firing for ever, a store that holds an     *)
(* expired entry, active or revoked, reaches a state in which it holds      *)
(* none, and right after a round of CollectGarbage that returned nil the    *)
(* store holds no entry that has expired                                    *)
GCEventuallyDeletes ==
    /\ [][(ret'.op = "CollectGarbage" /\ ret'.err = "") => ~HoldsExpired("peer")']_vars
    /\ (HoldsExpired("peer") ~> ~HoldsExpired("peer"))

(* a round of CollectGarbage has removed from the bucket the expired        *)
(* session of a cookie that was never revoked                               *)
GCRemovedExpiredSession ==
    /\ ret = Ret("CollectGarbage", "peer", "")
    /\ Signer("peer") # NoKey
    /\ loggedOut["peer"] = {}
    /\ revoked["peer"] = {}
    /\ \E c \in cookies : IsExpired(c.payload.e) /\ ~InBucket("peer", c.payload.id)

SigningPositions(keys) == {i \in DOMAIN keys : CanSign(keys[i])}

AcceptingPositions(keys, str) ==
    {i \in DOMAIN keys : Ed25519Verify(keys[i], str.payload, str.signature)}

(* C16: whatever the list of keys a store was built with, its signer is the *)
(* first key of the list that can sign, without such a key the store has no *)
(* signer and New fails, and Verify rejects the signature of a cookie that  *)
(* decodes if and only if no key of the list accepts it                     *)
SignerFirstVerifyAny ==
    LET keys == Keys("peer")
        sp   == SigningPositions(keys)
    IN  /\ sp = {} =>
              /\ Signer("peer") = NoKey
              /\ \A id \in IDsNow :
                    StoreNew("peer", "alice", TestAgent, id).err = "no signing key loaded"
        /\ sp # {} =>
              /\ Signer("peer") = keys[CHOOSE i \in sp : \A j \in sp : i <= j]
              /\ \A id \in IDsNow :
                    StoreNew("peer", "alice", TestAgent, id).err # "no signing key loaded"
        /\ \A str \in CookieInputs :
              FromString(str) = "" =>
                 /\ KeysAccept(keys, str.payload, str.signature)
                       <=> AcceptingPositions(keys, str) # {}
                 /\ StoreVerify("peer", str).err = "cookie signature is not valid"
                       <=> AcceptingPositions(keys, str) = {}

(* the peer, built with a verify-only key, then a signing key, then the     *)
(* public key of the signer, has verified a cookie of the signer that only  *)
(* its last key accepts                                                     *)
VerifiedByLastKey ==
    /\ ret = Ret("Verify", "peer", "")
    /\ Len(Keys("peer")) = MaxKeys
    /\ SigningPositions(Keys("peer")) = {2}
    /\ \E c \in cookies :
          /\ SessionOf(c) \in verified["peer"]
          /\ \A d \in cookies : SessionOf(d) = SessionOf(c) => AcceptingPositions(Keys("peer"), d) = {MaxKeys}

(* C17: the context string of every key of a store is the cookie name, "_"  *)
(* and the name of the key, and a cookie signed under a context string      *)
(* that no key of the store uses is rejected by Verify with "cookie         *)
(* signature is not valid", also when a key of the store has the key        *)
(* material the cookie was signed with                                      *)
OtherContextRejected ==
    LET keys == Keys("peer")
    IN  /\ \A i \in DOMAIN keys : keys[i].ctx = CookieName \o "_" \o keys[i].name
        /\ \A c \in cookies :
              (\A i \in DOMAIN keys : keys[i].ctx # c.signature.ctx)
                  => StoreVerify("peer", c).err = "cookie signature is not valid"

(* the peer has rejected the signature of the only cookie, signed by the    *)
(* signer, while every key of the peer has the key material of the signer   *)
(* under another name                                                       *)
SameBytesOtherContext ==
    /\ ret = Ret("Verify", "peer", "cookie signature is not valid")
    /\ Cardinality(cookies) = 1
    /\ \A c \in cookies :
          /\ c.signature = Ed25519Sign(SignerKeys[1], c.payload)
          /\ \A i \in DOMAIN Keys("peer") :
                /\ Keys("peer")[i].mat = c.signature.mat
                /\ Keys("peer")[i].name # SignerKeys[1].name

(* C18: in every reachable state each record of the revocation set of a     *)
(* store is a SID with a SessionBase, user name and expiry, and has no      *)
(* AgentInfo, whether Revoke, RevokeID or LoadRevocations put it there,     *)
(* and each record of a user bucket has one                                 *)
RevokedCarryNoAgent ==
    \A st \in Stores :
        /\ \A x \in revoked[st] : DOMAIN x = {"id", "u", "e"}
        /\ \A u \in Users : \A x \in sessions[st][u] :
              DOMAIN x = {"id", "u", "e", "agent"} /\ x.agent = TestAgent

(* on the signing peer RevokeID has returned nil, the session of one cookie *)
(* is in the revoked set with no Revoke called, and the session of another  *)
(* cookie is still active, with its agent                                   *)
RevokedByIDBesideActive ==
    /\ ret = Ret("RevokeID", "peer", "")
    /\ Signer("peer") # NoKey
    /\ loggedOut["peer"] = {}
    /\ \E c \in cookies : SessionOf(c) \in revoked["peer"] /\ ~InBucket("peer", c.payload.id)
    /\ \E c \in cookies : \E x \in sessions["peer"][c.payload.u] :
          x = Stored(c.payload.id, c.payload.u, c.payload.e, TestAgent)

(* C19: whenever the revocation set of a store that has a signer holds no   *)
(* entry that has not expired, ListRevoked returns as the revoked field the *)
(* two bytes [] and not null, with a signature that verifies under the      *)
(* signer's key; and the sessions of a user that has none that has not      *)
(* expired are marshalled as [] as well                                     *)
EmptyListIsBrackets ==
    \A st \in Stores :
        (Signer(st) # NoKey /\ ~Corrupt(st)) =>
            /\ (\A x \in revoked[st] : IsExpired(x.e)) =>
                  LET lr == StoreListRevoked(st)
                  IN  /\ lr.err = ""
                      /\ lr.revoked = ListPayload(<<>>)
                      /\ lr.revoked # NullPayload
                      /\ PayloadLen(lr.revoked) = 2
                      /\ Ed25519Verify(Signer(st), lr.revoked, lr.signature)
            /\ \A u \in Users :
                  LET l == BackendListUser(st, sessions[st], u)
                  IN  l.list = {} =>
                         /\ l.err = ""
                         /\ SessionFullListMarshalJSON(InOrder(l.list)) = ListPayload(<<>>)

(* ListRevoked has returned on the signing peer while everything in its     *)
(* revocation set had expired and garbage collection had not removed it     *)
ListedOnlyExpired ==
    /\ ret = Ret("ListRevoked", "peer", "")
    /\ Signer("peer") # NoKey
    /\ revoked["peer"] # {}
    /\ \A x \in revoked["peer"] : IsExpired(x.e)

(* C20 as the specification states it: for every SID, every SessionBase     *)
(* and every signature that is not empty, reading back the string that was  *)
(* written gives the same SID, SessionBase and signature                    *)
CodecRoundTrips ==
    ret.op = "FromString" => (ret.err = "" /\ ret.out = ret.in)

(* C20: for every SID, every SessionBase and every signature that is not    *)
(* empty, reading back the string that was written succeeds and gives the   *)
(* same SID, expiry and signature, and the same user name when the user     *)
(* name is valid UTF-8; of another user name it gives back the bytes with   *)
(* each byte that is not UTF-8 replaced by U+FFFD                           *)
CodecRoundTripsUTF8 ==
    ret.op = "FromString" =>
        /\ ret.err = ""
        /\ ret.out.id = ret.in.id
        /\ ret.out.signature = ret.in.signature
        /\ ret.out.s.e = ret.in.s.e
        /\ ret.out.s.u = ToValidUTF8(ret.in.s.u, 1)
        /\ ValidUTF8(ret.in.s.u, 1) => ret.out = ret.in

(* a value whose user name needs escaping and holds a two-byte character,   *)
(* with a negative expiry and a signature whose last quantum is short, has  *)
(* been read back                                                           *)
CodecReadBack ==
    /\ ret.op = "FromString"
    /\ ret.err = ""
    /\ ret.in.s.u \in {<<92, 97>>, <<97, 223, 191, 98>>}
    /\ ret.in.s.e < 0
    /\ Len(ret.in.signature) % 3 = 1
    /\ ret.out = ret.in

InAlphabet(c) == Base64URLIndex(c) >= 0

(* the two halves of a string at its first dot *)
PayloadHalf(str) == SubSeq(str, 1, IndexFrom(str, 46, 1) - 1)

SignatureHalf(str) == SubSeq(str, IndexFrom(str, 46, 1) + 1, Len(str))

(* unpadded base64 in the URL-safe alphabet: no other character, and not   *)
(* one character beyond a multiple of four                                 *)
ValidBase64URL(h) == (\A i \in DOMAIN h : InAlphabet(h[i])) /\ Len(h) % 4 # 1

(* the number of bytes n characters stand for *)
DecodedLen(n) == (n * 6) \div 8

(* the strings C21 says are rejected *)
MustReject(str) ==
    \/ IndexFrom(str, 46, 1) = 0
    \/ PayloadHalf(str) = <<>>
    \/ SignatureHalf(str) = <<>>
    \/ \E i \in DOMAIN PayloadHalf(str) : ~InAlphabet(PayloadHalf(str)[i])
    \/ \E i \in DOMAIN SignatureHalf(str) : ~InAlphabet(SignatureHalf(str)[i])
    \/ DecodedLen(Len(PayloadHalf(str))) <= ulidLength

(* the strings C21 says are accepted *)
MustAccept(str) ==
    /\ IndexFrom(str, 46, 1) # 0
    /\ PayloadHalf(str) # <<>> /\ ValidBase64URL(PayloadHalf(str))
    /\ SignatureHalf(str) # <<>> /\ ValidBase64URL(SignatureHalf(str))
    /\ DecodedLen(Len(PayloadHalf(str))) > ulidLength

(* C21: FromString returns an error for every string without a dot, with   *)
(* a second dot, with an empty half, with a character outside the URL-safe  *)
(* base64 alphabet (= included) in a half, or with a payload half that      *)
(* stands for 16 bytes or fewer, and returns nil for a string whose halves  *)
(* are unpadded URL-safe base64 with a payload of more than 16 bytes        *)
FromStringRejects ==
    ret.op = "Parse" =>
        /\ MustReject(ret.in) => ret.err # ""
        /\ MustAccept(ret.in) => ret.err = ""

(* the request carries "Bearer <t>" with t one of the configured tokens *)
Authorized(st, hdr) == \E i \in DOMAIN Tokens(st) : hdr = Bearer \o <<" ">> \o Tokens(st)[i]

(* C22 as the specification states it: GET /revocations answers 200 with    *)
(* the signed list if and only if the request is authorized, answers 401    *)
(* to every other request, and leaves the store as it is                    *)
RevocationsIffToken ==
    [][ret'.op = "handleRevocations" =>
          /\ ret'.status = 200 <=> Authorized(ret'.st, ret'.req)
          /\ ~Authorized(ret'.st, ret'.req) => ret'.status = 401
          /\ UNCHANGED <<sessions, revoked>>]_vars

(* C22: GET /revocations answers 200 with the signed list if and only if    *)
(* the request is authorized and ListRevoked succeeds, 500 when the request *)
(* is authorized and ListRevoked fails, and 401 to every other request: no  *)
(* header, another scheme, an unknown token, no token configured; it leaves *)
(* the store as it is                                                       *)
RevocationsIffTokenAndListed ==
    [][ret'.op = "handleRevocations" =>
          LET ok == Authorized(ret'.st, ret'.req)
              lr == StoreListRevoked(ret'.st)
          IN  /\ ret'.status = 200 <=> (ok /\ lr.err = "")
              /\ ret'.status = 500 <=> (ok /\ lr.err # "")
              /\ ret'.status = 401 <=> ~ok
              /\ UNCHANGED <<sessions, revoked>>]_vars

(* the peer, which holds revocations, has answered 200 to a request with    *)
(* the second of its two tokens                                             *)
RevocationsServed ==
    /\ ret.op = "handleRevocations"
    /\ ret.status = 200
    /\ Len(Tokens("peer")) = 2
    /\ ret.req = Bearer \o <<" ">> \o Tokens("peer")[2]
    /\ revoked["peer"] # {}

(* C23: GET /auth answers 500 when Verify failed on an error of the         *)
(* back-end during the revocation lookup, and 401 when the cookie does not  *)
(* decode or its signature is not valid                                     *)
BackendErrorIs500 ==
    ret.op = "handleAuth" =>
        /\ ret.err = "failed to check for cookie revocation" => ret.status = 500
        /\ ret.err \in {"malformed", "cookie signature is not valid"} => ret.status = 401


(* C24: NewStore fails, returns no store and starts neither the GC loop    *)
(* nor the sync loop when no key is configured, when a key entry has no    *)
(* loadable type-specific configuration, when no back-end is selected, or  *)
(* when the sync base URL is empty or has a scheme other than http(s).     *)
HasPrefix(s, pre) == Len(s) >= Len(pre) /\ SubSeq(s, 1, Len(pre)) = pre

NoKeyConfigured(conf) == Len(conf.keys) = 0

KeyNotLoadable(conf) == \E i \in DOMAIN conf.keys : conf.keys[i].ed25519 \in {"nil", "unreadable"}

NoBackendSelected(conf) == ~conf.inMemory /\ conf.bolt = "nil"

SyncURLNotHTTP(conf) ==
    /\ conf.sync # NoSync
    /\ ~HasPrefix(ToLower(conf.sync.baseURL), <<"h", "t", "t", "p", ":">>)
    /\ ~HasPrefix(ToLower(conf.sync.baseURL), <<"h", "t", "t", "p", "s", ":">>)

NewStoreRejects ==
    (/\ ret.op = "NewStore"
     /\ \/ NoKeyConfigured(ret.conf)
        \/ KeyNotLoadable(ret.conf)
        \/ NoBackendSelected(ret.conf)
        \/ SyncURLNotHTTP(ret.conf))
    => /\ ret.err # ""
       /\ ~deploy.peer.returned
       /\ ~deploy.peer.gc
       /\ ~deploy.peer.sync

(* NewStore was given a public key, the in-memory back-end and a file URL  *)
(* to sync from                                                            *)
FileURLRejected ==
    /\ ret.op = "NewStore"
    /\ ret.conf.keys = <<[name |-> "k1", ed25519 |-> "public"]>>
    /\ ret.conf.inMemory
    /\ ret.conf.bolt = "nil"
    /\ ret.conf.sync.baseURL = <<"f", "i", "l", "e", ":", "/", "/", "/", "x">>
    /\ ret.err = "sync base-url is invalid"


(* C25: a store has exactly one back-end: NewStore rejects a configuration *)
(* that selects both the in-memory and the bolt back-end, and one that     *)
(* selects none.                                                           *)
BothBackendsSelected(conf) == conf.inMemory /\ conf.bolt # "nil"

ExactlyOneBackend ==
    (/\ ret.op = "NewStore"
     /\ BothBackendsSelected(ret.conf) \/ NoBackendSelected(ret.conf))
    => /\ ret.err # ""
       /\ ~deploy.peer.returned


(* C26: Verify returns a session only when its expires is strictly greater *)
(* than the current time: a validly signed cookie whose expires equals the *)
(* current Unix time is rejected as expired.                               *)
UnixNow == now \div TicksPerSec

VerifyOnlyBeforeExpiry ==
    \A st \in Stores, c \in cookies :
        StoreVerify(st, c).err = "" => c.payload.e > UnixNow


(* C27: in the in-memory back-end list-user, list-revoked and is-revoked   *)
(* hold the mutex in shared mode and save, revoke, revoke-id,              *)
(* load-revocations and collect-garbage hold it exclusively, so that no    *)
(* mutating operation runs concurrently with any other operation.          *)
InCall(g) == calls[g].pc \in {"locked", "deleted", "done"}

Reading(g) == calls[g].op \in {"ListUser", "ListRevoked", "IsRevoked"}

Mutating(g) ==
    calls[g].op \in {"Save", "Revoke", "RevokeID", "LoadRevocations", "CollectGarbage"}

MutexDiscipline ==
    Kind = "in-memory" =>
        /\ \A g \in Goroutines :
              InCall(g) => /\ Reading(g) => g \in mutex.r /\ mutex.w = ""
                           /\ Mutating(g) => mutex.w = g /\ mutex.r = {}
                           /\ Reading(g) \/ Mutating(g)
        /\ \A g \in Goroutines, h \in Goroutines :
              g # h /\ InCall(g) /\ InCall(h) => ~Mutating(g) /\ ~Mutating(h)

(* two readers are in their calls while the GC loop waits for the mutex *)
ReadersShareGCWaits ==
    /\ Kind = "in-memory"
    /\ calls["h1"].op = "ListUser" /\ calls["h1"].pc = "locked"
    /\ calls["h2"].op = "IsRevoked" /\ calls["h2"].pc = "locked"
    /\ calls["gc"].op = "CollectGarbage" /\ calls["gc"].pc = "called"
    /\ mutex.r = {"h1", "h2"}
    /\ sessions.peer["alice"] # {}

(* C28: every back-end operation is atomic: revoke and revoke-id take the  *)
(* session out of the active bucket and put it into the revoked set in one *)
(* critical section or transaction, so that no concurrent list-user,       *)
(* list-revoked or is-revoked reads a state with the session in neither or *)
(* in both.                                                                *)
Revoking(h) == calls[h].op \in {"Revoke", "RevokeID"} /\ InCall(h)

(* the step in which reader g gets the state it reports: its read of the   *)
(* maps, the start of its bolt transaction                                 *)
Reads(g) ==
    /\ Reading(g)
    /\ \/ Kind = "in-memory" /\ calls[g].pc = "locked" /\ calls'[g].pc = "done"
       \/ Kind = "bolt" /\ calls[g].pc = "called" /\ calls'[g].pc = "locked"

InActive(s) == Has(sessions.peer[s.u], s.id)

InRevoked(s) == Has(revoked.peer, s.id)

RevokeIsAtomic ==
    [][/\ \A h \in Goroutines : Revoking(h) => mutex.w = h
       /\ \A g \in Goroutines, h \in Goroutines :
             (g # h /\ Reads(g) /\ Revoking(h) /\ calls[h].pc # "locked" /\ calls[h].found)
             => /\ InActive(calls[h].s) \/ InRevoked(calls[h].s)
                /\ ~calls[h].listed => ~(InActive(calls[h].s) /\ InRevoked(calls[h].s))]_vars

(* a bolt reader has started its transaction while a Revoke that found the *)
(* session has deleted it and not yet put it                               *)
ReadsBesideRevoke ==
    /\ Kind = "bolt"
    /\ calls["h2"].op = "Revoke" /\ calls["h2"].pc = "deleted" /\ calls["h2"].found
    /\ calls["h1"].op = "ListUser" /\ calls["h1"].pc = "locked"
    /\ calls["h1"].tx = Shared
    /\ InActive(LockSession)


(* C29: a sync tick holds no lock or transaction of the store while its    *)
(* HTTP request is in flight and has exclusive access only for the final   *)
(* load-revocations, so verify and mint are never blocked by a slow sync.  *)
Holds(g) == mutex.w = g \/ g \in mutex.r

SyncHoldsNoLockInFlight ==
    \A g \in SyncLoops :
        /\ calls[g].pc = "requesting" => ~Holds(g)
        /\ Holds(g) => calls[g].op = "LoadRevocations" /\ InCall(g) /\ mutex.w = g
        /\ (calls[g].pc = "requesting" /\ \A k \in Goroutines \ {g} : ~InCall(k))
           => \A h \in Handlers :
                 calls[h].pc = "called" => CanAcquire(Kind, LockMode(calls[h].op), mutex)

(* the save of a mint is in its critical section and the lookup of a       *)
(* verify is about to lock while the request of the sync loop is in flight *)
MintDuringRequest ==
    /\ calls["sync"].pc = "requesting"
    /\ calls["h1"].op = "Save" /\ calls["h1"].pc = "locked"
    /\ calls["h2"].op = "IsRevoked" /\ calls["h2"].pc = "called"
    /\ mutex.w = "h1"

(* C30: the sync loop sends at most one request per tick and never has two *)
(* requests in flight, and two collect-garbage runs of the GC loop never   *)
(* overlap.                                                                *)
InFlight == {g \in Goroutines : calls[g].pc = "requesting"}

GCRuns == {g \in Goroutines : calls[g].op = "CollectGarbage" /\ calls[g].pc # "idle"}

OneRunAtATime ==
    [][/\ \A g \in Goroutines :
             (calls[g].pc # "requesting" /\ calls'[g].pc = "requesting")
             => loops[g] = 1 /\ loops'[g] = 0
       /\ Cardinality(InFlight') <= 1
       /\ Cardinality(GCRuns') <= 1]_vars

(* both tickers have fired again while the request of the sync loop is in  *)
(* flight and CollectGarbage is in its critical section                    *)
TicksWaitForLoops ==
    /\ calls["sync"].pc = "requesting"
    /\ calls["gc"].op = "CollectGarbage" /\ calls["gc"].pc = "locked"
    /\ loops["sync"] = 1
    /\ loops["gc"] = 1


(* C31: the GC loop and the sync loop never stop because of an error:      *)
(* after a tick on which collect-garbage or the sync failed the loop waits *)
(* for the next tick and executes it; a loop exits only when the channel   *)
(* of its ticker is closed.                                                *)
Running(g) == calls[g].pc \in {"called", "requesting"}

LoopsSurviveErrors ==
    \A g \in {"gc", "sync"} :
        /\ [](calls[g].pc = "exited" => loops[g] < 0)
        /\ (calls[g].pc = "done" /\ calls[g].err # "") ~> Running(g)
        /\ (calls[g].pc = "idle") ~> Running(g)

(* CollectGarbage has failed on the bolt file without buckets, the sync    *)
(* loop is at its LoadRevocations, and the next tick of the GC loop waits  *)
FailedTickNextWaits ==
    /\ calls["gc"].pc = "done" /\ calls["gc"].err # ""
    /\ calls["sync"].op = "LoadRevocations" /\ calls["sync"].pc = "called"
    /\ loops["gc"] = 1


(* C32: the effective GC and sync intervals are never below one second: a  *)
(* configured interval below one second or unset is replaced by the        *)
(* default (5 minutes for GC, 10 seconds for sync), and one at or above    *)
(* one second is used as configured.                                       *)
IntervalFloor ==
    ret.op = "NewStore" =>
        /\ deploy.peer.gc =>
              /\ ret.gcInterval >= Second
              /\ ret.conf.gcInterval < Second => ret.gcInterval = DefaultGCInterval
              /\ ret.conf.gcInterval >= Second => ret.gcInterval = ret.conf.gcInterval
        /\ deploy.peer.sync =>
              /\ ret.syncInterval >= Second
              /\ ret.conf.syncInterval < Second => ret.syncInterval = DefaultSyncInterval
              /\ ret.conf.syncInterval >= Second => ret.syncInterval = ret.conf.syncInterval


(* C33: the cursor loop of the bolt GC (delete the entry, then seek the    *)
(* deleted key to get the next surviving one) visits every key of a bucket *)
(* exactly once, terminates, deletes exactly the expired entries and       *)
(* returns their number, whatever the arrangement of expired and           *)
(* non-expired keys.                                                       *)
Range(s) == {s[i] : i \in DOMAIN s}

CursorLoopExact ==
    ret.op = "deleteExpired" =>
        LET in == Range(ret.in)
            expired == {x \in in : IsExpired(x.e)}
        IN  /\ ret.out.ended
            /\ Range(ret.out.bucket) = in \ expired
            /\ ret.out.bucket = InOrder(in \ expired)
            /\ ret.out.cnt = Cardinality(expired)
            /\ Len(ret.out.seen) = Cardinality(in)
            /\ Range(ret.out.seen) = {x.id : x \in in}

(* a full bucket whose first two keys and last key have expired *)
ExpiredRunFirstAndLast ==
    /\ ret.op = "deleteExpired"
    /\ Len(ret.in) = MaxBucket
    /\ IsExpired(ret.in[1].e) /\ IsExpired(ret.in[2].e)
    /\ ~IsExpired(ret.in[3].e)
    /\ IsExpired(ret.in[MaxBucket].e)
    /\ ret.out.cnt >= 3


(* C34: the in-memory and the bolt back-end, started empty and given the   *)
(* same operations at the same times, return the same success or error,    *)
(* the same counts and the same sets of sessions.                          *)
SameContract ==
    ret.op \in BackendOps =>
        /\ (ret.mem.err = "") = (ret.bolt.err = "")
        /\ ret.mem.cnt = ret.bolt.cnt
        /\ ret.mem.out = ret.bolt.out


(* C35: signatures are separated by use: a signature made over a           *)
(* revocation list is not accepted as a cookie signature by the key loop   *)
(* of Store.verify, and a signature made over a cookie payload is not      *)
(* accepted by the key loop of verifyAndDecodeSignedRevocationList.        *)
SignaturesSeparatedByUse ==
    /\ \A l \in UpstreamLists :
           StoreVerify("peer", ListAsCookie(l)).err \in {"malformed", "cookie signature is not valid"}
    /\ \A c \in cookies : ~KeysAccept(Keys("peer"), c.payload, c.signature)

(* what keeps the two uses apart is the form of the payload alone *)
CrossUseFailsToParse ==
    /\ \A l \in UpstreamLists : StoreVerify("peer", ListAsCookie(l)).err # ""
    /\ \A c \in cookies :
           LET r == SyncRevocations("peer", Response("http", 200, c.payload, c.signature))
           IN  ~r.ok /\ ~r.loaded


(* C36: Store.Verify changes neither the active buckets nor the revoked    *)
(* set, and it does not ask for the session in the active buckets: on a    *)
(* store whose back-end answers, every cookie with a signature one of its  *)
(* keys accepts, not expired and not in the revoked set verifies, saved    *)
(* there or not.                                                           *)
VerifyReadsOnly ==
    [][ret'.op = "Verify" =>
          /\ sessions' = sessions
          /\ revoked' = revoked
          /\ \A c \in cookies :
                 (/\ ~Corrupt(ret'.st)
                  /\ KeysAccept(Keys(ret'.st), c.payload, c.signature)
                  /\ ~IsExpired(c.payload.e)
                  /\ ~Has(revoked[ret'.st], c.payload.id))
                 => StoreVerify(ret'.st, c).err = ""]_vars

(* the peer has verified a cookie of the signer that it never saved *)
VerifiedWithoutSave ==
    /\ ret.op = "Verify" /\ ret.st = "peer" /\ ret.err = ""
    /\ \E s \in verified["peer"] :
           /\ ~Has(sessions["peer"][s.u], s.id)
           /\ Has(sessions["signer"][s.u], s.id)


(* C37: loading a revocation list, and with it every sync tick, only adds  *)
(* to the revoked set: no entry that is there is removed or replaced, the  *)
(* active buckets stay as they are, and a list that lacks an entry or      *)
(* carries another record for its SID does not undo the revocation.        *)
LoadOnlyAdds ==
    [][ret'.op = "syncRevocations" =>
          /\ \A st \in Stores : revoked[st] \subseteq revoked'[st]
          /\ sessions' = sessions
          /\ \A c \in cookies :
                 StoreVerify("peer", c).err = "cookie is revoked"
                 => StoreVerify("peer", c).err' = "cookie is revoked"]_vars

(* after a sync tick the peer holds a revoked entry for which a signed     *)
(* list of the upstream carries another record, and a signed list without  *)
(* it exists; loading either leaves the entry as it is                     *)
StaleListChangesNothing ==
    /\ ret.op = "syncRevocations" /\ ret.err = ""
    /\ \E x \in revoked["peer"] :
          /\ \E l \in UpstreamLists :
                 /\ \E i \in DOMAIN l : l[i].id = x.id /\ l[i] # x
                 /\ x \in BackendLoadRevocations("peer", sessions["peer"], revoked["peer"], l).R
          /\ x \in BackendLoadRevocations("peer", sessions["peer"], revoked["peer"], <<>>).R


(* C38: with identifiers that do not repeat, the revoked record of a       *)
(* session minted by Store.New carries the expiry of its cookie; a revoked *)
(* record leaves the set only in CollectGarbage and only when expired; so, *)
(* the clock never going back, a cookie that a store rejects as revoked    *)
(* or expired is never verified by that store later, GC or not.            *)
Rejected(st, c) == StoreVerify(st, c).err \in {"cookie is revoked", "cookie is expired"}

OnceRevokedNeverVerified ==
    /\ [](\A st \in Stores : \A x \in revoked[st] : \A c \in cookies :
             c.payload.id = x.id => x.e = c.payload.e)
    /\ [][\A st \in Stores :
             /\ \A x \in revoked[st] :
                    x \notin revoked'[st] =>
                        ret'.op = "CollectGarbage" /\ IsExpired(x.e) /\ now' = now
             /\ \A c \in cookies : Rejected(st, c) => Rejected(st, c)']_vars

(* the peer revoked the only cookie, GC has deleted the record and Verify  *)
(* rejects the cookie as expired                                           *)
RejectedAfterGC ==
    /\ ret.op = "Verify" /\ ret.st = "peer" /\ ret.err = "cookie is expired"
    /\ Cardinality(cookies) = 1
    /\ \E s \in loggedOut["peer"] :
          /\ ~Has(revoked["peer"], s.id)
          /\ \E c \in cookies : c.payload.id = s.id


Unloaded(st, resp) ==
    LET r == SyncRevocations(st, resp)
    IN  ~r.ok /\ ~r.loaded /\ r.R = revoked[st]

UnsignedListsRejected ==
    /\ \A up \in Stores :
           (Signer(up) = NoKey /\ ~Corrupt(up)) =>
               LET lr == StoreListRevoked(up)
               IN  /\ lr.err = ""
                   /\ lr.signature = NoSignature
                   /\ \A down \in Stores :
                          Unloaded(down, Response("http", 200, lr.revoked, lr.signature))
    /\ \A resp \in UpstreamResponses :
           resp.signature = NoSignature => Unloaded("peer", resp)

(* a verify-only peer that has revoked a session fails a sync tick while   *)
(* a list without signature offers it an entry it does not have            *)
UnsignedListOffered ==
    /\ ret.op = "syncRevocations" /\ ret.err = "failed"
    /\ Signer("peer") = NoKey /\ ~Corrupt("peer")
    /\ revoked["peer"] # {}
    /\ \E resp \in UpstreamResponses :
          /\ resp.status = 200 /\ resp.signature = NoSignature
          /\ resp.revoked.t = "list"
          /\ \E i \in DOMAIN resp.revoked.items :
                 ~Has(revoked["peer"], resp.revoked.items[i].id)

=============================================================================
